---------------------------- MODULE Spec2Model ----------------------------
(***************************************************************************)
(* Crazy Bridge multiplayer server: the room / player registries           *)
(* (src/src/managers/PlayerManager.js), the game manager                   *)
(* (src/unnamed/part_002), the socket handlers (src/unnamed/part_000) and  *)
(* the REST routes (src/src/routes/index.js).                              *)
(*                                                                         *)
(* JavaScript objects are records, a Map is a function (rooms, players,    *)
(* activeGames) or, where the code relies on insertion order               *)
(* (room.players), a sequence in insertion order.  null is the empty       *)
(* tuple.  Display names, language and createdAt/startedAt stamps do not   *)
(* influence control flow and are left out of the records.                 *)
(***************************************************************************)
EXTENDS Integers, Sequences, FiniteSets, TLC

(***************************************************************************)
(* Bounds of the model.                                                    *)
(***************************************************************************)
MaxPlayerIds == 3      \* player ids minted in one behaviour
MaxSockets == 2        \* socket connections opened in one behaviour
MaxGameLength == 10    \* longest game a room is created with
MaxRoundChanges == 2   \* round records of a session that players drop out of
MaxTicks == 1          \* clock advances in one behaviour
MaxGraceTicks == 2     \* clock advances in a behaviour of the grace windows
ShortDelay == 1000     \* a delay shorter than every timeout, in ms

Null == << >>

(***************************************************************************)
(* Clock and timeouts (all in ms).                                         *)
(***************************************************************************)
graceMs == 30000
disconnectMs == 5 * 60 * 1000
inactivityThreshold == 30 * 60 * 1000
maxAttempts == 100

chars ==
  << "A", "B", "C", "D", "E", "F", "G", "H", "I", "J", "K", "L", "M",
     "N", "O", "P", "Q", "R", "S", "T", "U", "V", "W", "X", "Y", "Z" >>

UpperCaseLetters == { chars[i] : i \in 1..Len(chars) }

\* chars.charAt(i), i counted from 0
charAt(i) == chars[i + 1]

\* The values of Math.floor(Math.random() * chars.length) for the four
\* letters of one sampled code.
RandomDraws == { <<22, 23, 24, 25>>, <<0, 1, 2, 3>> }

\* code = ''; for (i < 4) code += chars.charAt(draw)
codeOf(draw) ==
  << charAt(draw[1]), charAt(draw[2]), charAt(draw[3]), charAt(draw[4]) >>

\* Inputs of the REST and socket requests.
Capacities == {2, 3}
GameLengths == {2}
Collisions == {0, 1, maxAttempts - 1}

VARIABLES
  now,            \* Date.now()
  ticks,          \* number of clock advances so far
  players,        \* PlayerManager.players
  socketToPlayer, \* PlayerManager.socketToPlayer
  idSeq,          \* number of player ids minted
  rooms,          \* RoomManager.rooms
  roomCodes,      \* RoomManager.roomCodes
  activeGames,    \* GameManager.activeGames
  timers,         \* pending setTimeout callbacks
  sockets,        \* per-connection closure: currentPlayer, currentRoom
  events,         \* events emitted by the last handler, in order
  result          \* outcome of the last handler

vars == << now, ticks, players, socketToPlayer, idSeq, rooms, roomCodes,
           activeGames, timers, sockets, events, result >>

(***************************************************************************)
(* Helpers on sequences and functions.                                     *)
(***************************************************************************)
Range(s) == { s[i] : i \in 1..Len(s) }

IndexOf(s, id) ==
  IF \E i \in 1..Len(s) : s[i].id = id
    THEN CHOOSE i \in 1..Len(s) : s[i].id = id /\ \A j \in 1..(i - 1) : s[j].id # id
    ELSE 0

RemoveAt(s, i) == SubSeq(s, 1, i - 1) \o SubSeq(s, i + 1, Len(s))

\* Map.set(k, v)
MapSet(f, k, v) == (k :> v) @@ f

\* Map.delete(k)
MapDelete(f, k) == [ x \in (DOMAIN f) \ {k} |-> f[x] ] @@ << >>

\* The state the managers own, threaded through one handler.
World == [ players |-> players, socketToPlayer |-> socketToPlayer,
           idSeq |-> idSeq, rooms |-> rooms, roomCodes |-> roomCodes,
           activeGames |-> activeGames, timers |-> timers, events |-> << >> ]

Emit(w, e) == [ w EXCEPT !.events = Append(@, e) ]

Ev(type, roomCode, playerId) ==
  [ type |-> type, roomCode |-> roomCode, playerId |-> playerId ]


\* Statements in sequence: the value of a call is computed once and handed
\* to the statements that follow the call.
Then(value, Rest(_)) == CHOOSE out \in { Rest(v) : v \in { value } } : TRUE

Ok(w, ret) == [ w |-> w, err |-> "", ret |-> ret ]

Throw(w, msg) == [ w |-> w, err |-> msg, ret |-> Null ]

\* JavaScript's  v || d  for a numeric v
OrDefault(v, d) == IF v = 0 THEN d ELSE v

(***************************************************************************)
(* PlayerManager                                                           *)
(***************************************************************************)
generatePlayerId(w) == << "player", w.idSeq + 1 >>

createPlayer(w, socketId) ==
  LET playerId == generatePlayerId(w)
      player == [ id |-> playerId, socketId |-> socketId, roomCode |-> Null,
                  isConnected |-> TRUE,
                  stats |-> [ gamesPlayed |-> 0, gamesWon |-> 0, totalScore |-> 0 ] ]
      w1 == [ w EXCEPT !.idSeq = @ + 1,
                       !.players = MapSet(@, playerId, player),
                       !.socketToPlayer = MapSet(@, socketId, playerId) ]
  IN Ok(Emit(w1, Ev("playerCreated", Null, playerId)), player)

\* The binding of the player's previous socket left in place.
oldSocketKept(s2p, player) == s2p

\* if (player.socketId) this.socketToPlayer.delete(player.socketId)
oldSocketRemoved(s2p, player) ==
  IF player.socketId # Null THEN MapDelete(s2p, player.socketId) ELSE s2p

updatePlayerSocket(w, playerId, newSocketId) ==
  IF playerId \notin DOMAIN w.players
    THEN Throw(w, "Player not found")
    ELSE
      LET player == w.players[playerId]
          s2p == oldSocketRemoved(w.socketToPlayer, player)
          player1 == [ player EXCEPT !.socketId = newSocketId, !.isConnected = TRUE ]
          w1 == [ w EXCEPT !.players = MapSet(@, playerId, player1),
                           !.socketToPlayer = MapSet(s2p, newSocketId, playerId) ]
      IN Ok(Emit(w1, Ev("playerSocketUpdated", Null, playerId)), player1)

setPlayerRoom(w, playerId, roomCode) ==
  IF playerId \notin DOMAIN w.players
    THEN Throw(w, "Player not found")
    ELSE
      LET player1 == [ w.players[playerId] EXCEPT !.roomCode = roomCode ]
          w1 == [ w EXCEPT !.players = MapSet(@, playerId, player1) ]
      IN Ok(Emit(w1, Ev("playerRoomChanged", Null, playerId)), player1)

removePlayer(w, playerId) ==
  IF playerId \notin DOMAIN w.players
    THEN Ok(w, FALSE)
    ELSE
      LET player == w.players[playerId]
          s2p == IF player.socketId # Null
                   THEN MapDelete(w.socketToPlayer, player.socketId)
                   ELSE w.socketToPlayer
          w1 == [ w EXCEPT !.players = MapDelete(@, playerId),
                           !.socketToPlayer = s2p ]
      IN Ok(Emit(w1, Ev("playerRemoved", Null, playerId)), TRUE)

disconnectPlayer(w, socketId) ==
  IF socketId \notin DOMAIN w.socketToPlayer
    THEN Ok(w, Null)
    ELSE
      LET playerId == w.socketToPlayer[socketId]
      IN IF playerId \notin DOMAIN w.players
           THEN Ok(w, Null)
           ELSE
             LET player1 == [ w.players[playerId] EXCEPT !.isConnected = FALSE ]
                 w1 == [ w EXCEPT !.players = MapSet(@, playerId, player1),
                                  !.socketToPlayer = MapDelete(@, socketId) ]
                 w2 == Emit(w1, Ev("playerDisconnected", Null, playerId))
                 timer == [ kind |-> "playerCleanup", key |-> playerId,
                            due |-> now + disconnectMs ]
             IN Ok([ w2 EXCEPT !.timers = @ \cup {timer} ], player1)

updatePlayerStats(w, playerId, gameResult) ==
  IF playerId \notin DOMAIN w.players
    THEN Throw(w, "Player not found")
    ELSE
      LET player == w.players[playerId]
          stats1 == [ gamesPlayed |-> player.stats.gamesPlayed + 1,
                      totalScore |-> player.stats.totalScore + gameResult.score,
                      gamesWon |-> IF gameResult.won THEN player.stats.gamesWon + 1
                                                    ELSE player.stats.gamesWon ]
          w1 == [ w EXCEPT !.players = MapSet(@, playerId, [ player EXCEPT !.stats = stats1 ]) ]
      IN Ok(Emit(w1, Ev("playerStatsUpdated", Null, playerId)), Null)

(***************************************************************************)
(* RoomManager: code generation, creation, deletion, joining               *)
(***************************************************************************)
\* The code sampled in the given iteration of the do-while loop: the first
\* `collisions` samples hit a live code, the later ones are codeOf(draw).
sampleAt(codes, collisions, draw, attempt) ==
  IF attempt <= collisions /\ codes # {}
    THEN CHOOSE c \in codes : TRUE
    ELSE codeOf(draw)

\* The loop without its test against the live codes: the first sample is
\* returned whatever it is.
generateLoopUnchecked(codes, collisions, draw, attempts) ==
  [ code |-> sampleAt(codes, collisions, draw, attempts + 1),
    attempts |-> attempts + 1 ]

RECURSIVE generateLoop(_, _, _, _)
generateLoop(codes, collisions, draw, attempts) ==
  LET code == sampleAt(codes, collisions, draw, attempts + 1)
      attempts1 == attempts + 1
  IN IF code \in codes /\ attempts1 < maxAttempts
       THEN generateLoop(codes, collisions, draw, attempts1)
       ELSE [ code |-> code, attempts |-> attempts1 ]

generateRoomCode(w, collisions, draw) ==
  LET r == generateLoop(w.roomCodes, collisions, draw, 0)
  IN IF r.attempts >= maxAttempts
       THEN Throw(w, "Unable to generate unique room code")
       ELSE Ok(w, r.code)

createRoom(w, hostPlayerId, options, collisions, draw) ==
  LET g == generateRoomCode(w, collisions, draw)
  IN IF g.err # ""
       THEN g
       ELSE
         LET roomCode == g.ret
             room == [ code |-> roomCode, hostId |-> hostPlayerId,
                       players |-> << >>,
                       maxPlayers |-> OrDefault(options.maxPlayers, 8),
                       gameState |-> "waiting", gameData |-> Null,
                       lastActivity |-> now,
                       settings |-> [ gameLength |-> OrDefault(options.gameLength, 10),
                                      autoStart |-> options.autoStart ] ]
             w1 == [ w EXCEPT !.rooms = MapSet(@, roomCode, room),
                              !.roomCodes = @ \cup {roomCode} ]
         IN Ok(Emit(w1, Ev("roomCreated", roomCode, hostPlayerId)), room)

deleteRoom(w, roomCode) ==
  IF roomCode \notin DOMAIN w.rooms
    THEN Ok(w, FALSE)
    ELSE
      LET w1 == [ w EXCEPT !.rooms = MapDelete(@, roomCode),
                           !.roomCodes = @ \ {roomCode} ]
      IN Ok(Emit(w1, Ev("roomDeleted", roomCode, Null)), TRUE)

\* The capacity test taken one member too late.
isFullPastCapacity(room) == Len(room.players) > room.maxPlayers

\* room.players.size >= room.maxPlayers
isFull(room) == Len(room.players) >= room.maxPlayers

\* The test that lets players into a game in progress.
gameInProgressNever(room) == FALSE

\* room.gameState === 'playing'
gameInProgress(room) == room.gameState = "playing"

\* The refusal of a join to a room that does not exist, reported as full.
roomNotFoundAsFull == "Room is full"

\* throw new Error('Room not found')
roomNotFound == "Room not found"

joinRoom(w, roomCode, playerId, socketId) ==
  IF roomCode \notin DOMAIN w.rooms THEN Throw(w, roomNotFound)
  ELSE
    LET room == w.rooms[roomCode]
    IN IF isFull(room) THEN Throw(w, "Room is full")
       ELSE IF gameInProgress(room) THEN Throw(w, "Game already in progress")
       ELSE IF IndexOf(room.players, playerId) # 0 THEN Throw(w, "Player already in room")
       ELSE
         LET player == [ id |-> playerId, isHost |-> (playerId = room.hostId),
                         isReady |-> FALSE, isConnected |-> TRUE,
                         joinedAt |-> now, socketId |-> socketId ]
             room1 == [ room EXCEPT !.players = Append(@, player),
                                    !.lastActivity = now ]
             w1 == [ w EXCEPT !.rooms = MapSet(@, roomCode, room1) ]
         IN Ok(Emit(w1, Ev("playerJoined", roomCode, playerId)), player)

updatePlayerConnection(w, roomCode, playerId, isConnected, socketId) ==
  IF roomCode \notin DOMAIN w.rooms THEN Ok(w, FALSE)
  ELSE
    LET room == w.rooms[roomCode]
        i == IndexOf(room.players, playerId)
    IN IF i = 0 THEN Ok(w, FALSE)
       ELSE
         LET player1 == [ room.players[i] EXCEPT
                            !.isConnected = isConnected,
                            !.socketId = IF socketId # Null THEN socketId ELSE @ ]
             room1 == [ room EXCEPT !.players[i] = player1, !.lastActivity = now ]
             w1 == [ w EXCEPT !.rooms = MapSet(@, roomCode, room1) ]
         IN Ok(Emit(w1, Ev("playerConnectionChanged", roomCode, playerId)), TRUE)

\* RoomManager.startGame
roomStartGame(w, roomCode, gameData) ==
  IF roomCode \notin DOMAIN w.rooms THEN Throw(w, "Room not found")
  ELSE IF w.rooms[roomCode].gameState # "waiting"
    THEN Throw(w, "Game already started or finished")
  ELSE
    LET room1 == [ w.rooms[roomCode] EXCEPT !.gameState = "playing",
                                            !.gameData = gameData,
                                            !.lastActivity = now ]
        w1 == [ w EXCEPT !.rooms = MapSet(@, roomCode, room1) ]
    IN Ok(Emit(w1, Ev("room.gameStarted", roomCode, Null)), room1)

updateGameState(w, roomCode, gameData) ==
  IF roomCode \notin DOMAIN w.rooms THEN Throw(w, "Room not found")
  ELSE
    LET room1 == [ w.rooms[roomCode] EXCEPT !.gameData = gameData,
                                            !.lastActivity = now ]
        w1 == [ w EXCEPT !.rooms = MapSet(@, roomCode, room1) ]
    IN Ok(Emit(w1, Ev("room.gameStateUpdated", roomCode, Null)), room1)


\* RoomManager.endGame
roomEndGame(w, roomCode, results) ==
  IF roomCode \notin DOMAIN w.rooms THEN Throw(w, "Room not found")
  ELSE
    LET room == w.rooms[roomCode]
        \* { ...room.gameData, results }
        data1 == IF room.gameData = Null
                   THEN [ results |-> results ]
                   ELSE [ f \in (DOMAIN room.gameData) \cup {"results"} |->
                            IF f = "results" THEN results ELSE room.gameData[f] ]
        room1 == [ room EXCEPT
                     !.gameState = "finished",
                     !.gameData = data1,
                     !.lastActivity = now,
                     !.players = [ i \in 1..Len(room.players) |->
                                     [ room.players[i] EXCEPT !.isReady = FALSE ] ] ]
        w1 == [ w EXCEPT !.rooms = MapSet(@, roomCode, room1) ]
    IN Ok(Emit(w1, Ev("room.gameEnded", roomCode, Null)), room1)

(***************************************************************************)
(* GameManager                                                             *)
(***************************************************************************)
NoSuit == "null"

RECURSIVE countDown(_)
countDown(i) == IF i >= 1 THEN << i >> \o countDown(i - 1) ELSE << >>

\* The increasing phase that starts at 1 again.
countUpFromOne(i, startCards) == [ k \in 1..startCards |-> k ]

RECURSIVE countUp(_, _)
countUp(i, startCards) ==
  IF i <= startCards THEN << i >> \o countUp(i + 1, startCards) ELSE << >>

createRoundSequence(startCards) == countDown(startCards) \o countUp(2, startCards)

initializeGameState(room) ==
  LET roundSequence == createRoundSequence(OrDefault(room.settings.gameLength, 10))
  IN [ players |-> [ i \in 1..Len(room.players) |->
                       [ id |-> room.players[i].id, hand |-> << >>, bid |-> Null,
                         actualWins |-> 0, totalScore |-> 0,
                         isConnected |-> room.players[i].isConnected,
                         roundHistory |-> << >> ] ],
       currentRound |-> 0,
       totalRounds |-> Len(roundSequence),
       cardsPerRound |-> roundSequence[1],
       trumpSuit |-> NoSuit,
       phase |-> "setup",
       currentPlayerIndex |-> 0,
       dealer |-> 0,
       currentTrick |-> << >>,
       currentTrickPlayers |-> << >>,
       leadSuit |-> NoSuit,
       trickWinner |-> Null,
       roundSequence |-> roundSequence,
       deck |-> << >>,
       roundHistory |-> << >>,
       roomCode |-> room.code ]

\* The permission test that asks for membership only.
anyMemberMayStart(room, hostId) ==
  hostId = Null \/ IndexOf(room.players, hostId) # 0

\* if (hostId) { host = room.players.get(hostId); !host || !host.isHost }
hostMayStart(room, hostId) ==
  \/ hostId = Null
  \/ \E i \in 1..Len(room.players) :
       room.players[i].id = hostId /\ room.players[i].isHost

\* GameManager.startGame; hostId is Null when the caller passes none.
startGame(w, roomCode, hostId) ==
  IF roomCode \notin DOMAIN w.rooms THEN Throw(w, "Room not found")
  ELSE
    LET room == w.rooms[roomCode]
    IN IF room.gameState # "waiting" THEN Throw(w, "Game already started or finished")
       ELSE IF ~hostMayStart(room, hostId)
         THEN Throw(w, "Only the host can start the game")
       ELSE IF Len(room.players) < 2 THEN Throw(w, "Need at least 2 players to start")
       ELSE IF ~(\A i \in 1..Len(room.players) : room.players[i].isReady)
         THEN Throw(w, "All players must be ready to start")
       ELSE
         LET gameState == initializeGameState(room)
             game == [ roomCode |-> roomCode, gameState |-> gameState,
                       currentRound |-> 0, phase |-> "setup" ]
             w1 == [ w EXCEPT !.activeGames = MapSet(@, roomCode, game) ]
             r == roomStartGame(w1, roomCode, gameState)
         IN IF r.err # "" THEN r
            ELSE Ok(Emit(r.w, Ev("gameStarted", roomCode, Null)), gameState)

\* An in-place change of the session's state object is seen through every
\* reference to that object: room.gameData refers to it whenever it was set
\* from it (RoomManager.startGame / updateGameState).
shareGameState(w, roomCode, old, new) ==
  [ w EXCEPT
      !.activeGames = [ @ EXCEPT ![roomCode].gameState = new ],
      !.rooms = IF roomCode \in DOMAIN @ /\ @[roomCode].gameData = old
                  THEN [ @ EXCEPT ![roomCode].gameData = new ]
                  ELSE @ ]

\* The pause that waits until no seat is connected.
insufficientPlayersBelowOne(gameState) ==
  Cardinality({ j \in 1..Len(gameState.players) : gameState.players[j].isConnected }) < 1

\* connectedPlayers = players.filter(p => p.isConnected); connectedPlayers.length < 2
insufficientPlayers(gameState) ==
  Cardinality({ j \in 1..Len(gameState.players) : gameState.players[j].isConnected }) < 2

handlePlayerDisconnection(w, roomCode, playerId) ==
  IF roomCode \notin DOMAIN w.activeGames THEN w
  ELSE
    LET old == w.activeGames[roomCode].gameState
        i == IndexOf(old.players, playerId)
    IN IF i = 0 THEN w
       ELSE
         LET new == [ old EXCEPT !.players[i].isConnected = FALSE ]
             w1 == Emit(shareGameState(w, roomCode, old, new),
                        Ev("game.playerDisconnected", roomCode, playerId))
         IN IF insufficientPlayers(new)
              THEN Emit(w1, Ev("gamePaused", roomCode, Null))
              ELSE w1

\* listener of the RoomManager's 'playerLeft'
handlePlayerLeft(w, roomCode, playerId) ==
  IF roomCode \in DOMAIN w.activeGames /\ w.rooms[roomCode].gameState = "playing"
    THEN handlePlayerDisconnection(w, roomCode, playerId)
    ELSE w

\* listener of the RoomManager's 'allPlayersReady'; an error of the awaited
\* startGame rejects the listener's promise, which nothing handles.
handleAllPlayersReady(w, roomCode) ==
  IF w.rooms[roomCode].settings.autoStart
    THEN LET r == startGame(w, roomCode, Null)
         IN IF r.err # ""
              THEN Emit(r.w, Ev("unhandledRejection", roomCode, Null))
              ELSE r.w
    ELSE Emit(w, Ev("readyToStart", roomCode, Null))

(***************************************************************************)
(* RoomManager: leaving, readiness, sweep                                  *)
(***************************************************************************)
\* The seat of the member appointed instead: the most recently joined one.
newHostIndexLast(roomPlayers) == Len(roomPlayers)

\* Array.from(room.players.values())[0]: the first member in insertion order
newHostIndex(roomPlayers) == 1

leaveRoom(w, roomCode, playerId) ==
  IF roomCode \notin DOMAIN w.rooms THEN Ok(w, FALSE)
  ELSE
    LET room == w.rooms[roomCode]
        i == IndexOf(room.players, playerId)
    IN IF i = 0 THEN Ok(w, FALSE)
       ELSE
         LET player == room.players[i]
             room1 == [ room EXCEPT !.players = RemoveAt(@, i), !.lastActivity = now ]
             w1 == Emit([ w EXCEPT !.rooms = MapSet(@, roomCode, room1) ],
                        Ev("playerLeft", roomCode, playerId))
             w2 == handlePlayerLeft(w1, roomCode, playerId)
             room2 == w2.rooms[roomCode]
             h == newHostIndex(room2.players)
             newHost == room2.players[h]
             w3 == IF player.isHost /\ Len(room2.players) > 0
                     THEN Emit([ w2 EXCEPT
                                   !.rooms = MapSet(@, roomCode,
                                     [ room2 EXCEPT !.players[h].isHost = TRUE,
                                                    !.hostId = newHost.id ]) ],
                               Ev("hostChanged", roomCode, newHost.id))
                     ELSE w2
             timer == [ kind |-> "emptyRoom", key |-> roomCode, due |-> now + graceMs ]
             w4 == IF Len(room2.players) = 0
                     THEN [ w3 EXCEPT !.timers = @ \cup {timer} ]
                     ELSE w3
         IN Ok(w4, TRUE)

\* The test that does not count the members.
allReadyAlone(room) == \A j \in 1..Len(room.players) : room.players[j].isReady

\* allReady && room.players.size >= 2
allReady(room) ==
  /\ \A j \in 1..Len(room.players) : room.players[j].isReady
  /\ Len(room.players) >= 2

updatePlayerReady(w, roomCode, playerId, isReady) ==
  IF roomCode \notin DOMAIN w.rooms THEN Throw(w, "Room not found")
  ELSE
    LET room == w.rooms[roomCode]
        i == IndexOf(room.players, playerId)
    IN IF i = 0 THEN Throw(w, "Player not found in room")
       ELSE
         LET room1 == [ room EXCEPT !.players[i].isReady = isReady,
                                    !.lastActivity = now ]
             w1 == Emit([ w EXCEPT !.rooms = MapSet(@, roomCode, room1) ],
                        Ev("playerReadyChanged", roomCode, playerId))
             w2 == IF allReady(room1)
                     THEN handleAllPlayersReady(Emit(w1, Ev("allPlayersReady", roomCode, Null)),
                                                roomCode)
                     ELSE w1
         IN Ok(w2, TRUE)

RECURSIVE sweep(_, _)
sweep(w, codes) ==
  IF codes = {} THEN w
  ELSE
    LET roomCode == CHOOSE c \in codes : TRUE
        w1 == IF now - w.rooms[roomCode].lastActivity > inactivityThreshold
                THEN deleteRoom(w, roomCode).w
                ELSE w
    IN sweep(w1, codes \ {roomCode})

cleanupInactiveRooms(w) == sweep(w, DOMAIN w.rooms)

(***************************************************************************)
(* GameManager: game actions                                               *)
(***************************************************************************)
\* `v || 0` for a bid that is null or a number
bidOrZero(bid) == IF bid = Null THEN 0 ELSE bid[1]

\* The score that does not count the tricks.
calculateScoreFlat(bid, actualWins) == IF bid = actualWins THEN 10 ELSE 0

calculateScore(bid, actualWins) == IF bid = actualWins THEN 10 + actualWins ELSE 0

\* The end of a round that adds nothing to the scores.
calculateRoundScoresNone(gameState) == gameState

calculateRoundScores(gameState) ==
  [ gameState EXCEPT
      !.players = [ i \in 1..Len(@) |->
                      [ @[i] EXCEPT !.totalScore =
                          @ + calculateScore(bidOrZero(gameState.players[i].bid),
                                             gameState.players[i].actualWins) ] ] ]

\* placeholder of the source: the first player of the trick
findTrickWinner(trick, trickPlayers, trumpSuit, leadSuit) == trickPlayers[1]

\* the source's dealing stub
dealCards(gameState) == [ gameState EXCEPT !.phase = "bidding" ]

RECURSIVE reduceWinner(_, _, _)
reduceWinner(gamePlayers, i, winner) ==
  IF i > Len(gamePlayers) THEN winner
  ELSE reduceWinner(gamePlayers, i + 1,
                    IF gamePlayers[i].totalScore > winner.totalScore
                      THEN gamePlayers[i] ELSE winner)

\* The winner that is the first seat whatever the scores.
determineWinnerFirst(gameState) == gameState.players[1]

determineWinner(gameState) == reduceWinner(gameState.players, 2, gameState.players[1])

\* The range test that knows no upper limit.
invalidBidBelowZero(bid, cardsPerRound) == bid[1] < 0

\* bid < 0 || bid > gameState.cardsPerRound
invalidBid(bid, cardsPerRound) == bid[1] < 0 \/ bid[1] > cardsPerRound

\* A phase check that lets every action through.
wrongPhaseNever(gameState, phase) == FALSE

\* gameState.phase !== phase, the check at the head of each step of the game
wrongPhase(gameState, phase) == gameState.phase # phase

\* a bid is passed as << n >>
processBid(game, playerId, bid) ==
  LET gameState == game.gameState
      i == IndexOf(gameState.players, playerId)
  IN IF wrongPhase(gameState, "bidding") THEN [ err |-> "Not in bidding phase", gameState |-> gameState ]
     ELSE IF i = 0 THEN [ err |-> "Player not found", gameState |-> gameState ]
     ELSE IF gameState.players[i].bid # Null
       THEN [ err |-> "Player has already bid", gameState |-> gameState ]
     ELSE IF invalidBid(bid, gameState.cardsPerRound)
       THEN [ err |-> "Invalid bid amount", gameState |-> gameState ]
     ELSE
       LET gs1 == [ gameState EXCEPT !.players[i].bid = bid ]
           allBidsPlaced == \A j \in 1..Len(gs1.players) : gs1.players[j].bid # Null
       IN [ err |-> "",
            gameState |-> IF allBidsPlaced
                            THEN [ gs1 EXCEPT !.phase = "playing", !.currentPlayerIndex = 0 ]
                            ELSE gs1 ]

cardIndexIn(hand, card) ==
  IF \E k \in 1..Len(hand) : hand[k] = card
    THEN CHOOSE k \in 1..Len(hand) : hand[k] = card /\ \A j \in 1..(k - 1) : hand[j] # card
    ELSE 0

\* The removal that always takes the first card of the hand.
spliceHead(hand, k) == Tail(hand)

\* hand.splice(k, 1), k counted from 1
spliceOne(hand, k) == SubSeq(hand, 1, k - 1) \o SubSeq(hand, k + 1, Len(hand))

\* The turn that stays with the seat that played.
nextPlayerIndexSame(gameState) == gameState.currentPlayerIndex

\* The turn that passes over the seats flagged disconnected.
nextPlayerIndexConnected(gameState) ==
  LET n == Len(gameState.players)
      steps == { d \in 1..n :
                   gameState.players[((gameState.currentPlayerIndex + d) % n) + 1].isConnected }
  IN IF steps = {} THEN (gameState.currentPlayerIndex + 1) % n
     ELSE (gameState.currentPlayerIndex
             + (CHOOSE d \in steps : \A e \in steps : d <= e)) % n

\* (gameState.currentPlayerIndex + 1) % gameState.players.length
nextPlayerIndex(gameState) ==
  (gameState.currentPlayerIndex + 1) % Len(gameState.players)

processCardPlay(game, playerId, card) ==
  LET gameState == game.gameState
      cur == gameState.currentPlayerIndex + 1
      currentPlayer == gameState.players[cur]
      cardIndex == cardIndexIn(currentPlayer.hand, card)
  IN IF wrongPhase(gameState, "playing") THEN [ err |-> "Not in playing phase", gameState |-> gameState ]
     ELSE IF currentPlayer.id # playerId THEN [ err |-> "Not your turn", gameState |-> gameState ]
     ELSE IF cardIndex = 0 THEN [ err |-> "Card not in hand", gameState |-> gameState ]
     ELSE
       LET gs1 == [ gameState EXCEPT
                      !.players[cur].hand = spliceOne(@, cardIndex),
                      !.currentTrick = Append(@, card),
                      !.currentTrickPlayers = Append(@, playerId) ]
           gs2 == IF Len(gs1.currentTrick) = 1
                    THEN [ gs1 EXCEPT !.leadSuit = card.suit ] ELSE gs1
           winnerId == findTrickWinner(gs2.currentTrick, gs2.currentTrickPlayers,
                                       gs2.trumpSuit, gs2.leadSuit)
           winnerIndex == IndexOf(gs2.players, winnerId)
           gs3 == [ gs2 EXCEPT !.players[winnerIndex].actualWins = @ + 1,
                               !.trickWinner = winnerId ]
       IN [ err |-> "",
            gameState |->
              IF Len(gs2.currentTrick) = Len(gs2.players)
                THEN IF Len(gs3.players[1].hand) = 0
                       THEN calculateRoundScores([ gs3 EXCEPT !.phase = "roundEnd" ])
                       ELSE [ gs3 EXCEPT !.currentPlayerIndex = winnerIndex - 1,
                                         !.currentTrick = << >>,
                                         !.currentTrickPlayers = << >>,
                                         !.leadSuit = NoSuit,
                                         !.trickWinner = Null ]
                ELSE [ gs2 EXCEPT !.currentPlayerIndex = nextPlayerIndex(gs2) ] ]

\* the forEach of GameManager.endGame over gameState.players, from seat i
RECURSIVE updateAllStats(_, _, _, _)
updateAllStats(w, gamePlayers, i, winnerId) ==
  IF i > Len(gamePlayers) THEN Ok(w, Null)
  ELSE
    LET r == updatePlayerStats(w, gamePlayers[i].id,
                               [ score |-> gamePlayers[i].totalScore,
                                 won |-> (gamePlayers[i].id = winnerId) ])
    IN IF r.err # "" THEN r ELSE updateAllStats(r.w, gamePlayers, i + 1, winnerId)

\* GameManager.endGame
endGame(w, roomCode, gameState) ==
  IF roomCode \notin DOMAIN w.activeGames THEN Ok(w, Null)
  ELSE
    LET results == [ winner |-> determineWinner(gameState).id,
                     finalScores |-> [ i \in 1..Len(gameState.players) |->
                                         [ id |-> gameState.players[i].id,
                                           score |-> gameState.players[i].totalScore ] ],
                     totalRounds |-> gameState.totalRounds ]
        r1 == updateAllStats(w, gameState.players, 1, results.winner)
    IN IF r1.err # "" THEN r1
       ELSE
         LET r2 == roomEndGame(r1.w, roomCode, results)
         IN IF r2.err # "" THEN r2
            ELSE Ok(Emit([ r2.w EXCEPT !.activeGames = MapDelete(@, roomCode) ],
                         Ev("gameEnded", roomCode, results.winner)), results)

\* gameState.currentRound >= gameState.totalRounds
gameComplete(gameState) == gameState.currentRound >= gameState.totalRounds

\* Returns the world after the call and, when it did not throw, the
\* updated copy of the game state.
processNextRound(w, game) ==
  LET old == game.gameState
  IN IF wrongPhase(old, "roundEnd")
       THEN [ w |-> w, err |-> "Not at end of round", gameState |-> old ]
     ELSE
       LET roundHistory == [ i \in 1..Len(old.players) |->
                               [ round |-> old.currentRound,
                                 cardsInRound |-> old.cardsPerRound,
                                 bid |-> bidOrZero(old.players[i].bid),
                                 actualWins |-> old.players[i].actualWins,
                                 roundScore |-> calculateScore(bidOrZero(old.players[i].bid),
                                                               old.players[i].actualWins) ] ]
           \* roundHistory.push mutates the array the old object shares
           pushed == [ old EXCEPT !.roundHistory = Append(@, roundHistory) ]
           w1 == shareGameState(w, game.roomCode, old, pushed)
           gs1 == [ pushed EXCEPT !.currentRound = @ + 1 ]
       IN IF gameComplete(gs1)
            THEN
              LET gs2 == [ gs1 EXCEPT !.phase = "gameEnd" ]
                  r == endGame(w1, game.roomCode, gs2)
              IN [ w |-> r.w, err |-> r.err, gameState |-> gs2 ]
            ELSE
              LET gs2 == [ gs1 EXCEPT
                             !.cardsPerRound = gs1.roundSequence[gs1.currentRound + 1],
                             !.phase = "setup",
                             !.players = [ i \in 1..Len(@) |->
                                             [ @[i] EXCEPT !.hand = << >>, !.bid = Null,
                                                           !.actualWins = 0 ] ] ]
              IN [ w |-> w1, err |-> "",
                   gameState |-> [ dealCards(gs2) EXCEPT !.phase = "bidding" ] ]

\* action: [ type, bid, card ]
processGameAction(w, roomCode, playerId, action) ==
  IF roomCode \notin DOMAIN w.activeGames THEN Throw(w, "No active game found")
  ELSE IF roomCode \notin DOMAIN w.rooms THEN Throw(w, "Room not found")
  ELSE
    LET game == w.activeGames[roomCode]
    IN IF IndexOf(game.gameState.players, playerId) = 0 THEN Throw(w, "Player not in game")
       ELSE
         Then(CASE action.type = "placeBid" ->
                     Then(processBid(game, playerId, action.bid), LAMBDA b :
                       [ w |-> w, err |-> b.err, gameState |-> b.gameState ])
                [] action.type = "playCard" ->
                     Then(processCardPlay(game, playerId, action.card), LAMBDA c :
                       [ w |-> w, err |-> c.err, gameState |-> c.gameState ])
                [] action.type = "nextRound" -> processNextRound(w, game)
                [] OTHER -> [ w |-> w, err |-> "Unknown action type",
                              gameState |-> game.gameState ],
              LAMBDA r :
           IF r.err # "" THEN Throw(r.w, r.err)
           ELSE
             \* game.gameState = updatedGameState, on the game object even
             \* when endGame has removed it from activeGames
             Then(updateGameState(
                    IF roomCode \in DOMAIN r.w.activeGames
                      THEN [ r.w EXCEPT !.activeGames[roomCode].gameState = r.gameState ]
                      ELSE r.w,
                    roomCode, r.gameState),
                  LAMBDA u :
               IF u.err # "" THEN u
               ELSE Ok(Emit(u.w, Ev("gameStateUpdated", roomCode, playerId)), r.gameState)))

(***************************************************************************)
(* Requests and their inputs                                               *)
(***************************************************************************)
lowerChars ==
  << "a", "b", "c", "d", "e", "f", "g", "h", "i", "j", "k", "l", "m",
     "n", "o", "p", "q", "r", "s", "t", "u", "v", "w", "x", "y", "z" >>

upperChar(ch) ==
  IF \E i \in 1..Len(lowerChars) : lowerChars[i] = ch
    THEN chars[CHOOSE i \in 1..Len(lowerChars) : lowerChars[i] = ch]
    ELSE ch

\* String.prototype.toUpperCase on a code given letter by letter
RECURSIVE toUpperCase(_)
toUpperCase(code) ==
  IF code = << >> THEN << >>
  ELSE << upperChar(Head(code)) >> \o toUpperCase(Tail(code))

\* Room codes a client may send: the codes the server can hand out, and
\* one of them typed in lower case.
RequestCodes == { codeOf(d) : d \in RandomDraws } \cup { << "w", "x", "y", "z" >> }

PlayerIdOf(n) == << "player", n >>
SocketIdOf(n) == << "socket", n >>

\* Player ids a client may send: the minted ones and none.
RequestIds == { PlayerIdOf(n) : n \in 1..idSeq } \cup { Null }

OpenSockets == { s \in DOMAIN sockets : sockets[s].open }

Result(op, roomCode, playerId, r) ==
  [ op |-> op, roomCode |-> roomCode, playerId |-> playerId,
    err |-> r.err, ret |-> r.ret ]

\* The handler is over: the managers' state is the world w.
Commit(w) ==
  /\ players' = w.players
  /\ socketToPlayer' = w.socketToPlayer
  /\ idSeq' = w.idSeq
  /\ rooms' = w.rooms
  /\ roomCodes' = w.roomCodes
  /\ activeGames' = w.activeGames
  /\ timers' = w.timers
  /\ events' = w.events

(***************************************************************************)
(* REST routes                                                             *)
(***************************************************************************)
\* POST /rooms/create
restCreateRoom(w, gameSettings, collisions, draw) ==
  LET p == createPlayer(w, Null)
      c == createRoom(p.w, p.ret.id,
                      [ maxPlayers |-> OrDefault(gameSettings.maxPlayers, 8),
                        gameLength |-> OrDefault(gameSettings.gameLength, 10),
                        autoStart |-> gameSettings.autoStart ],
                      collisions, draw)
  IN IF c.err # "" THEN c
     ELSE
       LET j == joinRoom(c.w, c.ret.code, p.ret.id, Null)
       IN IF j.err # "" THEN j
          ELSE
            LET r == setPlayerRoom(j.w, p.ret.id, c.ret.code)
            IN IF r.err # "" THEN r ELSE Ok(r.w, c.ret.code)

\* The request's settings and the random source range over the given sets.
RestCreateRoomOf(capacities, gameLengths, autoStarts, collisionCounts, draws) ==
  \E maxPlayers \in capacities, gameLength \in gameLengths, autoStart \in autoStarts,
     collisions \in collisionCounts, draw \in draws :
    /\ idSeq < MaxPlayerIds
    /\ \E r \in { restCreateRoom(World,
                               [ maxPlayers |-> maxPlayers, gameLength |-> gameLength,
                                 autoStart |-> autoStart ],
                               collisions, draw) } :
          /\ Commit(r.w)
          /\ result' = Result("createRoom", IF r.err = "" THEN r.ret ELSE Null,
                              PlayerIdOf(idSeq + 1), r)
    /\ UNCHANGED << now, ticks, sockets >>

RestCreateRoom(capacities, autoStarts, collisionCounts, draws) ==
  RestCreateRoomOf(capacities, GameLengths, autoStarts, collisionCounts, draws)

\* POST /rooms/join
restJoinRoom(w, roomCode) ==
  LET normalizedRoomCode == toUpperCase(roomCode)
  IN IF Len(normalizedRoomCode) # 4 THEN Throw(w, "Room code must be 4 characters")
     ELSE
       LET p == createPlayer(w, Null)
           j == joinRoom(p.w, normalizedRoomCode, p.ret.id, Null)
       IN IF j.err # "" THEN j
          ELSE
            LET r == setPlayerRoom(j.w, p.ret.id, normalizedRoomCode)
            IN IF r.err # "" THEN r ELSE Ok(r.w, p.ret.id)

RestJoinRoom ==
  \E roomCode \in RequestCodes :
    /\ idSeq < MaxPlayerIds
    /\ \E r \in { restJoinRoom(World, roomCode) } :
          /\ Commit(r.w)
          /\ result' = Result("joinRoom", toUpperCase(roomCode), PlayerIdOf(idSeq + 1), r)
    /\ UNCHANGED << now, ticks, sockets >>

\* DELETE /rooms/:code
restDeleteRoom(w, code, playerId) ==
  LET roomCode == toUpperCase(code)
  IN IF playerId = Null THEN Throw(w, "Player ID is required")
     ELSE IF roomCode \notin DOMAIN w.rooms THEN Throw(w, "Room not found")
     ELSE
       LET room == w.rooms[roomCode]
           i == IndexOf(room.players, playerId)
       IN IF i = 0 \/ ~room.players[IF i = 0 THEN 1 ELSE i].isHost
            THEN Throw(w, "Only the host can delete the room")
            ELSE deleteRoom(w, roomCode)

RestDeleteRoom ==
  \E code \in RequestCodes, playerId \in RequestIds :
    /\ \E r \in { restDeleteRoom(World, code, playerId) } :
          /\ Commit(r.w)
          /\ result' = Result("deleteRoom", toUpperCase(code), playerId, r)
    /\ UNCHANGED << now, ticks, sockets >>

\* POST /games/:roomCode/start
restStartGame(w, code, playerId) ==
  IF playerId = Null THEN Throw(w, "Player ID is required")
  ELSE startGame(w, toUpperCase(code), playerId)

RestStartGame ==
  \E code \in RequestCodes, playerId \in RequestIds :
    /\ \E r \in { restStartGame(World, code, playerId) } :
          /\ Commit(r.w)
          /\ result' = Result("startGame", toUpperCase(code), playerId,
                              [ r EXCEPT !.ret = Null ])
    /\ UNCHANGED << now, ticks, sockets >>

(***************************************************************************)
(* Socket handlers.  Each returns the world, the closure variables         *)
(* currentPlayer / currentRoom of the connection, and the callback.        *)
(***************************************************************************)
Reply(w, cp, cr, err) == [ w |-> w, currentPlayer |-> cp, currentRoom |-> cr,
                           err |-> err, ret |-> Null ]

\* io.on('connection')
Connect ==
  /\ Cardinality(DOMAIN sockets) < MaxSockets
  /\ sockets' = MapSet(sockets, SocketIdOf(Cardinality(DOMAIN sockets) + 1),
                       [ open |-> TRUE, currentPlayer |-> Null, currentRoom |-> Null ])
  /\ events' = << >>
  /\ result' = [ op |-> "connect", roomCode |-> Null, playerId |-> Null,
                 err |-> "", ret |-> Null ]
  /\ UNCHANGED << now, ticks, players, socketToPlayer, idSeq, rooms, roomCodes,
                  activeGames, timers >>

\* socket.on('player:authenticate')
authenticate(w, socketId, cp0, cr0, playerId, hasName) ==
  LET known == playerId # Null /\ playerId \in DOMAIN w.players
      \* currentPlayer = playerManager.getPlayer(playerId)
      cp1 == IF playerId # Null THEN (IF known THEN playerId ELSE Null) ELSE cp0
      u == IF known THEN updatePlayerSocket(w, playerId, socketId).w ELSE w
      roomCode == IF known THEN u.players[playerId].roomCode ELSE Null
      rejoin == known /\ roomCode # Null /\ roomCode \in DOMAIN u.rooms
      w1 == IF rejoin
              THEN Emit(updatePlayerConnection(u, roomCode, playerId, TRUE, socketId).w,
                        Ev("player:reconnected", roomCode, playerId))
              ELSE u
      cr1 == IF rejoin THEN roomCode ELSE cr0
      create == cp1 = Null /\ hasName
      c == createPlayer(w1, socketId)
      w2 == IF create THEN c.w ELSE w1
      cp2 == IF create THEN c.ret.id ELSE cp1
  IN IF cp2 = Null
       THEN Reply(w2, cp2, cr1, "Failed to authenticate player")
       ELSE Reply(w2, cp2, cr1, "")

\* the request carries one of the ids, or none, and a name or none
AuthenticateAs(ids) ==
  \E s \in OpenSockets, playerId \in ids, hasName \in BOOLEAN :
    \E r \in { authenticate(World, s, sockets[s].currentPlayer, sockets[s].currentRoom,
                          playerId, hasName) } :
       /\ r.w.idSeq <= MaxPlayerIds
       /\ Commit(r.w)
       /\ sockets' = [ sockets EXCEPT ![s].currentPlayer = r.currentPlayer,
                                      ![s].currentRoom = r.currentRoom ]
       /\ result' = Result("authenticate", Null, playerId,
                           [ r EXCEPT !.ret = [ socketId |-> s, hasName |-> hasName ] ])
       /\ UNCHANGED << now, ticks >>

Authenticate == AuthenticateAs(RequestIds)

authenticated(cp, playerId) == cp # Null /\ cp = playerId

\* socket.on('room:join')
roomJoin(w, socketId, cp, cr, roomCode, playerId) ==
  IF ~authenticated(cp, playerId) THEN Reply(w, cp, cr, "Player not authenticated")
  ELSE
    LET normalizedRoomCode == toUpperCase(roomCode)
        j == joinRoom(w, normalizedRoomCode, playerId, socketId)
    IN IF j.err # "" THEN Reply(j.w, cp, cr, j.err)
       ELSE
         LET r == setPlayerRoom(j.w, playerId, normalizedRoomCode)
         IN Reply(r.w, cp, normalizedRoomCode, r.err)

RoomJoin ==
  \E s \in OpenSockets, roomCode \in RequestCodes :
  \E playerId \in { sockets[s].currentPlayer, Null } :
    \E r \in { roomJoin(World, s, sockets[s].currentPlayer, sockets[s].currentRoom,
                      roomCode, playerId) } :
       /\ Commit(r.w)
       /\ sockets' = [ sockets EXCEPT ![s].currentRoom = r.currentRoom ]
       /\ result' = Result("joinRoom", toUpperCase(roomCode), playerId, r)
       /\ UNCHANGED << now, ticks >>

\* socket.on('room:leave')
roomLeave(w, cp, cr, roomCode, playerId) ==
  IF ~authenticated(cp, playerId) THEN Reply(w, cp, cr, "Player not authenticated")
  ELSE
    LET normalizedRoomCode == toUpperCase(roomCode)
        l == leaveRoom(w, normalizedRoomCode, playerId)
    IN IF l.ret
         THEN LET r == setPlayerRoom(l.w, playerId, Null)
              IN [ Reply(r.w, cp, Null, r.err) EXCEPT !.ret = (r.err = "") ]
         ELSE [ Reply(l.w, cp, cr, "") EXCEPT !.ret = FALSE ]

RoomLeave ==
  \E s \in OpenSockets, roomCode \in RequestCodes :
  \E playerId \in { sockets[s].currentPlayer, Null } :
    \E r \in { roomLeave(World, sockets[s].currentPlayer, sockets[s].currentRoom,
                       roomCode, playerId) } :
       /\ Commit(r.w)
       /\ sockets' = [ sockets EXCEPT ![s].currentRoom = r.currentRoom ]
       /\ result' = Result("leaveRoom", toUpperCase(roomCode), playerId, r)
       /\ UNCHANGED << now, ticks >>

\* socket.on('player:ready'); the room code is used as sent
playerReady(w, cp, cr, roomCode, playerId, isReady) ==
  IF ~authenticated(cp, playerId) THEN Reply(w, cp, cr, "Player not authenticated")
  ELSE LET r == updatePlayerReady(w, roomCode, playerId, isReady)
       IN Reply(r.w, cp, cr, r.err)

PlayerReady ==
  \E s \in OpenSockets, roomCode \in RequestCodes, isReady \in BOOLEAN :
  \E playerId \in { sockets[s].currentPlayer, Null } :
    \E r \in { playerReady(World, sockets[s].currentPlayer, sockets[s].currentRoom,
                         roomCode, playerId, isReady) } :
       /\ Commit(r.w)
       /\ result' = Result("setReady", roomCode, playerId, [ r EXCEPT !.ret = isReady ])
       /\ UNCHANGED << now, ticks, sockets >>

\* socket.on('game:start')
gameStart(w, cp, cr, roomCode, playerId) ==
  IF ~authenticated(cp, playerId) THEN Reply(w, cp, cr, "Player not authenticated")
  ELSE LET r == startGame(w, roomCode, playerId)
       IN Reply(r.w, cp, cr, r.err)

GameStart ==
  \E s \in OpenSockets, roomCode \in RequestCodes :
  \E playerId \in { sockets[s].currentPlayer, Null } :
    \E r \in { gameStart(World, sockets[s].currentPlayer, sockets[s].currentRoom,
                       roomCode, playerId) } :
       /\ Commit(r.w)
       /\ result' = Result("startGame", roomCode, playerId, r)
       /\ UNCHANGED << now, ticks, sockets >>

\* socket.on('game:action')
gameAction(w, cp, cr, roomCode, playerId, action) ==
  IF ~authenticated(cp, playerId) THEN Reply(w, cp, cr, "Player not authenticated")
  ELSE Then(processGameAction(w, roomCode, playerId, action), LAMBDA r :
         Reply(r.w, cp, cr, r.err))

GameAction(actions) ==
  \E s \in OpenSockets, roomCode \in RequestCodes, action \in actions :
  \E playerId \in { sockets[s].currentPlayer, Null } :
    \E r \in { gameAction(World, sockets[s].currentPlayer, sockets[s].currentRoom,
                        roomCode, playerId, action) } :
       /\ Commit(r.w)
       /\ result' = Result("gameAction", roomCode, playerId, [ r EXCEPT !.ret = action ])
       /\ UNCHANGED << now, ticks, sockets >>

\* socket.on('disconnect')
disconnect(w, socketId, cp, cr) ==
  IF cp = Null THEN Reply(w, cp, cr, "")
  ELSE
    LET d == disconnectPlayer(w, socketId)
    IN IF d.ret # Null /\ cr # Null
         THEN LET u == updatePlayerConnection(d.w, cr, d.ret.id, FALSE, Null)
                  w1 == Emit(u.w, Ev("player:disconnected", cr, d.ret.id))
              IN Reply(handlePlayerDisconnection(w1, cr, d.ret.id), cp, cr, "")
         ELSE Reply(d.w, cp, cr, "")

Disconnect ==
  \E s \in OpenSockets :
    \E r \in { disconnect(World, s, sockets[s].currentPlayer, sockets[s].currentRoom) } :
       /\ Commit(r.w)
       /\ sockets' = [ sockets EXCEPT ![s].open = FALSE ]
       /\ result' = Result("disconnect", sockets[s].currentRoom,
                           sockets[s].currentPlayer, r)
       /\ UNCHANGED << now, ticks >>

(***************************************************************************)
(* Timers and the clock                                                    *)
(***************************************************************************)
\* the callback leaveRoom hands to setTimeout
emptyRoomTimeout(w, roomCode) ==
  IF roomCode \in DOMAIN w.rooms /\ Len(w.rooms[roomCode].players) = 0
    THEN deleteRoom(w, roomCode).w
    ELSE w

\* the callback disconnectPlayer hands to setTimeout; a player object that
\* has left the registry was removed while disconnected and stays so
playerCleanupTimeout(w, playerId) ==
  IF playerId \in DOMAIN w.players
    THEN IF ~w.players[playerId].isConnected THEN removePlayer(w, playerId).w ELSE w
    ELSE removePlayer(w, playerId).w

TimerFires ==
  \E t \in timers :
    /\ t.due <= now
    /\ \E w0 \in { [ World EXCEPT !.timers = @ \ {t} ] } :
         \E w1 \in { IF t.kind = "emptyRoom" THEN emptyRoomTimeout(w0, t.key)
                                              ELSE playerCleanupTimeout(w0, t.key) } :
           Commit(w1)
    /\ result' = [ op |-> t.kind, roomCode |-> IF t.kind = "emptyRoom" THEN t.key ELSE Null,
                   playerId |-> IF t.kind = "emptyRoom" THEN Null ELSE t.key,
                   err |-> "", ret |-> t.due ]
    /\ UNCHANGED << now, ticks, sockets >>

\* the setInterval callback of the RoomManager
CleanupInactiveRooms ==
  /\ \E w \in { cleanupInactiveRooms(World) } : Commit(w)
  /\ result' = [ op |-> "cleanupInactiveRooms", roomCode |-> Null, playerId |-> Null,
                 err |-> "", ret |-> Null ]
  /\ UNCHANGED << now, ticks, sockets >>

\* Time passes: a short while, up to the next timer, or longer than the
\* inactivity threshold.  A timer that is due fires before time moves on.
Delays ==
  { ShortDelay, inactivityThreshold + 1 } \cup { t.due - now : t \in timers }

AdvanceUpTo(maxTicks) ==
  \E d \in Delays :
    /\ ticks < maxTicks
    /\ d > 0
    /\ \A t \in timers : now + d <= t.due
    /\ now' = now + d
    /\ ticks' = ticks + 1
    /\ events' = << >>
    /\ result' = [ op |-> "advance", roomCode |-> Null, playerId |-> Null,
                   err |-> "", ret |-> Null ]
    /\ UNCHANGED << players, socketToPlayer, idSeq, rooms, roomCodes, activeGames,
                    timers, sockets >>

Advance == AdvanceUpTo(MaxTicks)

(***************************************************************************)
(* The server                                                              *)
(***************************************************************************)
Init ==
  /\ now = 0
  /\ ticks = 0
  /\ players = << >>
  /\ socketToPlayer = << >>
  /\ idSeq = 0
  /\ rooms = << >>
  /\ roomCodes = {}
  /\ activeGames = << >>
  /\ timers = {}
  /\ sockets = << >>
  /\ events = << >>
  /\ result = [ op |-> "init", roomCode |-> Null, playerId |-> Null,
                err |-> "", ret |-> Null ]

\* Game actions a client sends while the server runs from its start.
LobbyActions ==
  { [ type |-> "placeBid", bid |-> << 0 >>, card |-> Null ],
    [ type |-> "nextRound", bid |-> Null, card |-> Null ] }

LobbyGameAction == GameAction(LobbyActions)

AnyCreateRoom == RestCreateRoom(Capacities, BOOLEAN, Collisions, RandomDraws)

Next ==
  \/ AnyCreateRoom
  \/ RestJoinRoom
  \/ RestDeleteRoom
  \/ RestStartGame
  \/ Connect
  \/ Authenticate
  \/ RoomJoin
  \/ RoomLeave
  \/ PlayerReady
  \/ GameStart
  \/ LobbyGameAction
  \/ Disconnect
  \/ TimerFires
  \/ CleanupInactiveRooms
  \/ Advance

Spec == Init /\ [][Next]_vars

(***************************************************************************)
(* The lobby: requests of clients whose connection is authenticated.  A    *)
(* player p that sends a socket request does so on a connection whose      *)
(* closure holds currentPlayer = p; which connection that is does not      *)
(* enter the room and game handlers.                                       *)
(***************************************************************************)
MintedIds == { PlayerIdOf(n) : n \in 1..idSeq }

connectionOf(playerId) == SocketIdOf(playerId[2])

ClientJoin ==
  \E playerId \in MintedIds, roomCode \in RequestCodes :
    \E r \in { roomJoin(World, connectionOf(playerId), playerId, Null, roomCode, playerId) } :
       /\ Commit(r.w)
       /\ result' = Result("joinRoom", toUpperCase(roomCode), playerId, r)
       /\ UNCHANGED << now, ticks, sockets >>

ClientLeave ==
  \E playerId \in MintedIds, roomCode \in RequestCodes :
    \E r \in { roomLeave(World, playerId, Null, roomCode, playerId) } :
       /\ Commit(r.w)
       /\ result' = Result("leaveRoom", toUpperCase(roomCode), playerId, r)
       /\ UNCHANGED << now, ticks, sockets >>

ClientReady ==
  \E playerId \in MintedIds, roomCode \in RequestCodes, isReady \in BOOLEAN :
    \E r \in { playerReady(World, playerId, Null, roomCode, playerId, isReady) } :
       /\ Commit(r.w)
       /\ result' = Result("setReady", roomCode, playerId, [ r EXCEPT !.ret = isReady ])
       /\ UNCHANGED << now, ticks, sockets >>

ClientStart ==
  \E playerId \in MintedIds, roomCode \in RequestCodes :
    \E r \in { gameStart(World, playerId, Null, roomCode, playerId) } :
       /\ Commit(r.w)
       /\ result' = Result("startGame", roomCode, playerId, r)
       /\ UNCHANGED << now, ticks, sockets >>

ClientAction(actions) ==
  \E playerId \in MintedIds, roomCode \in RequestCodes, action \in actions :
    \E r \in { gameAction(World, playerId, Null, roomCode, playerId, action) } :
       /\ Commit(r.w)
       /\ result' = Result("gameAction", roomCode, playerId, [ r EXCEPT !.ret = action ])
       /\ UNCHANGED << now, ticks, sockets >>

(***************************************************************************)
(* Room codes: rooms are created, deleted by their host, left, removed by  *)
(* the grace timer and swept, with a random source that may repeat live    *)
(* codes.                                                                  *)
(***************************************************************************)
CodesCreateRoom == RestCreateRoom({2}, {FALSE}, Collisions, RandomDraws)

SpecCodes ==
  Init /\ [][\/ CodesCreateRoom
             \/ RestDeleteRoom
             \/ ClientLeave
             \/ TimerFires
             \/ CleanupInactiveRooms
             \/ Advance]_vars

(***************************************************************************)
(* Membership of one room: creation, joining over REST and over a socket,  *)
(* leaving, and the grace timer of the emptied room.                       *)
(***************************************************************************)
OneDraw == { <<22, 23, 24, 25>> }

LobbyCreateRoom == RestCreateRoom(Capacities, {FALSE}, {0}, OneDraw)

SpecRooms ==
  Init /\ [][\/ LobbyCreateRoom
             \/ RestJoinRoom
             \/ ClientJoin
             \/ ClientLeave
             \/ TimerFires
             \/ Advance]_vars

(***************************************************************************)
(* Starting a game in one room: creation, joining, leaving, readiness,     *)
(* the start request over REST and over a socket, and game actions sent    *)
(* once the session exists.                                                *)
(***************************************************************************)
StartCreateRoom == RestCreateRoom(Capacities, BOOLEAN, {0}, OneDraw)

LobbyClientAction == ClientAction(LobbyActions)

SpecStart ==
  Init /\ [][\/ StartCreateRoom
             \/ RestJoinRoom
             \/ ClientLeave
             \/ ClientReady
             \/ ClientStart
             \/ RestStartGame
             \/ LobbyClientAction]_vars

(***************************************************************************)
(* The game actions on a dealt round.  The source never deals: its         *)
(* dealCards only sets the phase, and startGame leaves the phase 'setup'.  *)
(* The session is therefore taken where a round has been dealt: a room of  *)
(* EngineSeats ready members whose game was started by its host, each seat *)
(* holding the cards of one of the deals below, the phase 'bidding'.       *)
(* From there clients send bids, cards and round changes.                  *)
(***************************************************************************)
EngineSeats == {2, 3}

Card(suit, rank) == [ suit |-> suit, rank |-> rank ]

EngineDecks ==
  { << Card("S", "A"), Card("S", "7"), Card("H", "A"),
       Card("H", "7"), Card("S", "K"), Card("H", "K") >>,
    << Card("H", "K"), Card("S", "A"), Card("S", "K"),
       Card("H", "A"), Card("H", "7"), Card("S", "7") >> }

EmptyWorld ==
  [ players |-> << >>, socketToPlayer |-> << >>, idSeq |-> 0, rooms |-> << >>,
    roomCodes |-> {}, activeGames |-> << >>, timers |-> {}, events |-> << >> ]

\* k more players join the room over REST
RECURSIVE joinAll(_, _, _)
joinAll(w, roomCode, k) ==
  IF k = 0 THEN w ELSE joinAll(restJoinRoom(w, roomCode).w, roomCode, k - 1)

\* the members with the ids 1..k report ready
RECURSIVE readyAll(_, _, _)
readyAll(w, roomCode, k) ==
  IF k = 0 THEN w
  ELSE updatePlayerReady(readyAll(w, roomCode, k - 1), roomCode, PlayerIdOf(k), TRUE).w

EngineCode == << "W", "X", "Y", "Z" >>

\* The round dealt from the deck: seat i holds the cards
\* (i - 1) * cardsPerRound + 1 .. i * cardsPerRound of it.
dealtWorld(w, deck) ==
  LET old == w.activeGames[EngineCode].gameState
      size == old.cardsPerRound
      new == dealCards([ old EXCEPT
                           !.players = [ i \in 1..Len(old.players) |->
                                           [ old.players[i] EXCEPT !.hand =
                                               SubSeq(deck, (i - 1) * size + 1, i * size) ] ] ])
  IN shareGameState(w, EngineCode, old, new)

\* a room of up to three seats for a game of each of the lengths
created(lengths) ==
  { restCreateRoom(EmptyWorld,
                   [ maxPlayers |-> 3, gameLength |-> length, autoStart |-> FALSE ],
                   0, << 22, 23, 24, 25 >>).w : length \in lengths }

joined(worlds, seatCounts) ==
  { joinAll(w, EngineCode, seats - 1) : w \in worlds, seats \in seatCounts }

ready(worlds) ==
  { readyAll(w, EngineCode, Len(w.rooms[EngineCode].players)) : w \in worlds }

started(worlds) ==
  { [ startGame(w, EngineCode, PlayerIdOf(1)).w EXCEPT !.events = << >> ] :
      w \in worlds }

dealt(worlds, decks) == { dealtWorld(w, deck) : w \in worlds, deck \in decks }

InitFrom(worlds) ==
  /\ now = 0
  /\ ticks = 0
  /\ sockets = << >>
  /\ result = [ op |-> "init", roomCode |-> Null, playerId |-> Null,
                err |-> "", ret |-> Null ]
  /\ \E w \in worlds :
          /\ players = w.players
          /\ socketToPlayer = w.socketToPlayer
          /\ idSeq = w.idSeq
          /\ rooms = w.rooms
          /\ roomCodes = w.roomCodes
          /\ activeGames = w.activeGames
          /\ timers = w.timers
          /\ events = w.events

\* rooms of two and three seats, games of length 2
InitEngine ==
  InitFrom(dealt(started(ready(joined(created({ 2 }), EngineSeats))), EngineDecks))

\* A game action sent by a connected player for the room the player is in.
SeatAction(actions) ==
  \E playerId \in { p \in MintedIds \cap DOMAIN players : players[p].isConnected },
     action \in actions :
  \E r \in { gameAction(World, playerId, players[playerId].roomCode,
                         players[playerId].roomCode, playerId, action) } :
    /\ Commit(r.w)
    /\ result' = Result("gameAction", players[playerId].roomCode, playerId,
                        [ r EXCEPT !.ret = action ])
    /\ UNCHANGED << now, ticks, sockets >>

\* a bid below, inside or above the range of a round
PlaceBid ==
  SeatAction({ [ type |-> "placeBid", bid |-> << n >>, card |-> Null ] :
                 n \in { -1, 0, 1, 2, 3 } })

\* a card of the deals
PlayCard ==
  SeatAction({ [ type |-> "playCard", bid |-> Null, card |-> c ] :
                 c \in UNION { Range(deck) : deck \in EngineDecks } })

NextRound == SeatAction({ [ type |-> "nextRound", bid |-> Null, card |-> Null ] })

\* Bidding and card play of the dealt round.
SpecEngine ==
  InitEngine /\ [][\/ PlaceBid
                   \/ PlayCard]_vars

(***************************************************************************)
(* Round sequences: rooms of two are created with every game length up to  *)
(* MaxGameLength, and with none (0), joined, made ready and started.       *)
(***************************************************************************)
SequenceLengths == 0..MaxGameLength

SequenceCreateRoom == RestCreateRoomOf({2}, SequenceLengths, {FALSE}, {0}, OneDraw)

SpecSequence ==
  Init /\ [][\/ SequenceCreateRoom
             \/ RestJoinRoom
             \/ ClientReady
             \/ RestStartGame]_vars

(***************************************************************************)
(* Rounds and the end of the game.  The sessions are taken where the first *)
(* round has been dealt, with game lengths 1 and 2: with length 1 the      *)
(* dealt round is the last of the game, with length 2 two rounds follow    *)
(* it.  Clients send bids, cards and round changes.                        *)
(***************************************************************************)
\* The deal of the rounds: seat 0 holds the highest spade.
RoundDecks ==
  { << Card("S", "A"), Card("S", "7"), Card("H", "A"),
       Card("H", "7"), Card("S", "K"), Card("H", "K") >> }

\* rooms of two and three seats, games of length 1 and 2
InitRounds ==
  InitFrom(dealt(started(ready(joined(created({ 1, 2 }), EngineSeats))), RoundDecks))

\* a bid of no trick or of one trick
RoundPlaceBid ==
  SeatAction({ [ type |-> "placeBid", bid |-> << n >>, card |-> Null ] : n \in { 0, 1 } })

\* a card of the deal
RoundPlayCard ==
  SeatAction({ [ type |-> "playCard", bid |-> Null, card |-> c ] :
                 c \in UNION { Range(deck) : deck \in RoundDecks } })

SpecRounds ==
  InitRounds /\ [][\/ RoundPlaceBid
                   \/ RoundPlayCard
                   \/ NextRound]_vars

(***************************************************************************)
(* Players that drop out of a game.  The sessions are games of one round   *)
(* between two seats.  A player opens a connection and authenticates with  *)
(* its id, the connection closes, and five minutes later the player's      *)
(* record is removed unless the player has come back; meanwhile bids,      *)
(* cards and round changes are sent.                                       *)
(***************************************************************************)
\* a game of one round between two seats
InitDrop == InitFrom(dealt(started(ready(joined(created({ 1 }), { 2 }))), RoundDecks))

\* player:authenticate with the id of a player on record
Reauthenticate ==
  \E s \in OpenSockets, playerId \in MintedIds :
    \E r \in { authenticate(World, s, sockets[s].currentPlayer, sockets[s].currentRoom,
                          playerId, FALSE) } :
       /\ Commit(r.w)
       /\ sockets' = [ sockets EXCEPT ![s].currentPlayer = r.currentPlayer,
                                      ![s].currentRoom = r.currentRoom ]
       /\ result' = Result("authenticate", Null, playerId,
                           [ r EXCEPT !.ret = [ socketId |-> s, hasName |-> FALSE ] ])
       /\ UNCHANGED << now, ticks >>

\* a bid of no trick
DropPlaceBid == SeatAction({ [ type |-> "placeBid", bid |-> << 0 >>, card |-> Null ] })

\* one of the two cards of the deal
DropPlayCard ==
  SeatAction({ [ type |-> "playCard", bid |-> Null, card |-> c ] :
                 c \in { Card("S", "A"), Card("S", "7") } })

\* a round change, while no session has recorded MaxRoundChanges rounds
DropNextRound ==
  /\ \A c \in DOMAIN activeGames :
       Len(activeGames[c].gameState.roundHistory) < MaxRoundChanges
  /\ NextRound

SpecDrop ==
  InitDrop /\ [][\/ Connect
                 \/ Reauthenticate
                 \/ Disconnect
                 \/ Advance
                 \/ TimerFires
                 \/ DropPlaceBid
                 \/ DropPlayCard
                 \/ DropNextRound]_vars

(***************************************************************************)
(* Connections during a game.  The sessions are games of one round between *)
(* three seats, taken where the round has been dealt.  Players open        *)
(* connections and authenticate with their ids, connections close, and     *)
(* members leave the room.                                                 *)
(***************************************************************************)
InitPause == InitFrom(dealt(started(ready(joined(created({ 1 }), { 3 }))), RoundDecks))

\* room:leave sent by a member for the room it is in
MemberLeave ==
  \E playerId \in { p \in MintedIds \cap DOMAIN players : players[p].roomCode # Null } :
    \E r \in { roomLeave(World, playerId, players[playerId].roomCode,
                       players[playerId].roomCode, playerId) } :
       /\ Commit(r.w)
       /\ result' = Result("leaveRoom", players[playerId].roomCode, playerId, r)
       /\ UNCHANGED << now, ticks, sockets >>

SpecPause ==
  InitPause /\ [][Connect \/ Reauthenticate \/ Disconnect \/ MemberLeave]_vars

(***************************************************************************)
(* Grace windows of rooms.  A room is created and joined over REST,        *)
(* members leave, time passes twice, and the timers of the empty rooms     *)
(* fire.                                                                   *)
(***************************************************************************)
SpecGrace ==
  Init /\ [][\/ RestCreateRoomOf({ 2 }, { 2 }, { FALSE }, { 0 }, OneDraw)
             \/ RestJoinRoom
             \/ MemberLeave
             \/ AdvanceUpTo(MaxGraceTicks)
             \/ TimerFires]_vars

(***************************************************************************)
(* Grace windows of players.  The players are the host of a room and a     *)
(* member that joined it.  They open connections, authenticate with their  *)
(* ids and lose their connections, time passes twice, and the cleanup      *)
(* timers of the disconnected players fire.                                *)
(***************************************************************************)
InitLinger == InitFrom(joined(created({ 2 }), { 2 }))

SpecLinger ==
  InitLinger /\ [][\/ Connect
                   \/ Reauthenticate
                   \/ Disconnect
                   \/ AdvanceUpTo(MaxGraceTicks)
                   \/ TimerFires]_vars

(***************************************************************************)
(* Authentication.  The players are the host of a room and a member that   *)
(* joined it.  Connections open, authenticate with the id of a player on   *)
(* record, with an id the server never handed out or with none, with a     *)
(* name or without, and close.                                             *)
(***************************************************************************)
SpecAuth ==
  InitLinger /\ [][\/ Connect
                   \/ AuthenticateAs(RequestIds \cup { PlayerIdOf(MaxPlayerIds + 1) })
                   \/ Disconnect]_vars

(***************************************************************************)
(* Joining before and during a game: a room is created, players join over  *)
(* REST and over a socket, members report ready and the host starts the    *)
(* game.                                                                   *)
(***************************************************************************)
SpecJoin ==
  Init /\ [][\/ LobbyCreateRoom
             \/ RestJoinRoom
             \/ ClientJoin
             \/ ClientReady
             \/ ClientStart]_vars

(***************************************************************************)
(* The end of a room under a started game: the host deletes the room,     *)
(* members leave, the grace timer of the emptied room fires, and the       *)
(* inactivity sweep runs, while clients go on sending requests for the     *)
(* room.                                                                   *)
(***************************************************************************)
InitAbort == InitFrom(started(ready(joined(created({ 1 }), { 2, 3 }))))

SpecAbort ==
  InitAbort /\ [][\/ RestDeleteRoom
                  \/ MemberLeave
                  \/ ClientJoin
                  \/ ClientLeave
                  \/ ClientReady
                  \/ ClientStart
                  \/ LobbyClientAction
                  \/ AdvanceUpTo(MaxGraceTicks)
                  \/ TimerFires
                  \/ CleanupInactiveRooms]_vars

(***************************************************************************)
(* Turns while players drop out.  The sessions are games of one round      *)
(* between three seats; connections open, authenticate and close while     *)
(* the seats send bids and cards.                                          *)
(***************************************************************************)
SpecTurn ==
  InitPause /\ [][\/ Connect
                  \/ Reauthenticate
                  \/ Disconnect
                  \/ SeatAction({ [ type |-> "placeBid", bid |-> << 0 >>, card |-> Null ] })
                  \/ SeatAction({ [ type |-> "playCard", bid |-> Null, card |-> c ] :
                                    c \in { Card("S", "A"), Card("S", "7"),
                                            Card("H", "A") } })]_vars

(***************************************************************************)
(* Minting player ids.  generatePlayerId builds the id from Date.now() and *)
(* nine base-36 digits of Math.random(); the clock does not move here, so  *)
(* two ids are equal when the random digits repeat.  The source yields     *)
(* either a value it has not yielded before or one of the earlier ones:    *)
(* the handler runs with the source about to yield its draw-th value.      *)
(***************************************************************************)
MintAuthenticate ==
  \E s \in OpenSockets, playerId \in RequestIds, hasName \in BOOLEAN,
     draw \in 1..(idSeq + 1) :
    /\ draw <= MaxPlayerIds
    /\ \E r \in { authenticate([ World EXCEPT !.idSeq = draw - 1 ], s,
                                sockets[s].currentPlayer,
                                sockets[s].currentRoom, playerId, hasName) } :
         /\ Commit([ r.w EXCEPT !.idSeq = IF @ > idSeq THEN @ ELSE idSeq ])
         /\ sockets' = [ sockets EXCEPT ![s].currentPlayer = r.currentPlayer,
                                        ![s].currentRoom = r.currentRoom ]
         /\ result' = Result("authenticate", Null, playerId,
                             [ r EXCEPT !.ret = [ socketId |-> s, hasName |-> hasName ] ])
         /\ UNCHANGED << now, ticks >>

SpecMint ==
  InitLinger /\ [][Connect \/ MintAuthenticate \/ Disconnect]_vars

(***************************************************************************)
(* C1: every code a successful createRoom returns is four upper-case       *)
(* letters and is not the code of a room that was live when it was called, *)
(* so no two live rooms share a code; each live room is stored under its   *)
(* own code, and the set of live codes equals the key set of the room      *)
(* table after every step.                                                 *)
(***************************************************************************)
C1_Step ==
  /\ roomCodes' = DOMAIN rooms'
  /\ \A c \in DOMAIN rooms' : rooms'[c].code = c
  /\ (result'.op = "createRoom" /\ result'.err = "") =>
       /\ Len(result'.ret) = 4
       /\ \A i \in 1..4 : result'.ret[i] \in UpperCaseLetters
       /\ result'.ret \notin DOMAIN rooms
       /\ result'.ret \in DOMAIN rooms'
       /\ DOMAIN rooms' = DOMAIN rooms \cup { result'.ret }

C1_CodesUnique == (roomCodes = DOMAIN rooms) /\ [][C1_Step]_vars

\* A room was created while a room created earlier, and since left by its
\* only member, was still live.
C1_Witness ==
  /\ result.op = "createRoom" /\ result.err = ""
  /\ Cardinality(roomCodes) = 2
  /\ \E c \in roomCodes : Len(rooms[c].players) = 0

(***************************************************************************)
(* C2: every live room with at least one member has exactly one member     *)
(* whose isHost flag is set, and that member's id is the room's hostId.    *)
(***************************************************************************)
HostFlagged(room) == { i \in 1..Len(room.players) : room.players[i].isHost }

C2_ExactlyOneHost ==
  \A c \in DOMAIN rooms :
    Len(rooms[c].players) >= 1 =>
      /\ Cardinality(HostFlagged(rooms[c])) = 1
      /\ \A i \in HostFlagged(rooms[c]) : rooms[c].players[i].id = rooms[c].hostId

(***************************************************************************)
(* C3: when a host-flagged member leaves a room in which at least one      *)
(* member remains, exactly one remaining member is host-flagged afterwards:*)
(* a member that was there before and joined no later than any other       *)
(* remaining member; hostId is that member's id, and hostChanged, naming   *)
(* that member, is emitted after playerLeft.                               *)
(***************************************************************************)
EventIndex(type) ==
  IF \E k \in 1..Len(events') : events'[k].type = type
    THEN CHOOSE k \in 1..Len(events') : events'[k].type = type
    ELSE 0

HostLeaves ==
  /\ result'.op = "leaveRoom" /\ result'.ret = TRUE
  /\ result'.roomCode \in DOMAIN rooms
  /\ LET room == rooms[result'.roomCode]
         i == IndexOf(room.players, result'.playerId)
     IN i # 0 /\ room.players[i].isHost /\ Len(room.players) >= 2

C3_Step ==
  HostLeaves =>
    LET old == rooms[result'.roomCode]
        new == rooms'[result'.roomCode]
    IN /\ Len(new.players) = Len(old.players) - 1
       /\ Cardinality(HostFlagged(new)) = 1
       /\ \A h \in HostFlagged(new) :
            /\ new.players[h].id # result'.playerId
            /\ IndexOf(old.players, new.players[h].id) # 0
            /\ new.hostId = new.players[h].id
            /\ \A j \in 1..Len(new.players) :
                 new.players[h].joinedAt <= new.players[j].joinedAt
            /\ EventIndex("playerLeft") # 0
            /\ EventIndex("playerLeft") < EventIndex("hostChanged")
            /\ events'[EventIndex("hostChanged")].playerId = new.players[h].id

C3_HostSuccession == [][C3_Step]_vars

\* The host left a room of three whose other two members joined at
\* different times, and the earlier one is host now.
C3_Witness ==
  /\ result.op = "leaveRoom" /\ result.ret = TRUE
  /\ result.roomCode \in DOMAIN rooms
  /\ LET room == rooms[result.roomCode]
     IN /\ Len(room.players) = 2
        /\ room.players[1].isHost /\ ~room.players[2].isHost
        /\ room.players[1].joinedAt < room.players[2].joinedAt
        /\ \E k \in 1..Len(events) : events[k].type = "hostChanged"

(***************************************************************************)
(* C4: a join request for a room that holds as many members as its         *)
(* capacity fails with 'Room is full' and leaves the room table as it was; *)
(* after every step no room holds more members than its capacity.          *)
(***************************************************************************)
JoinAtCapacity ==
  /\ result'.op = "joinRoom"
  /\ result'.roomCode \in DOMAIN rooms
  /\ Len(rooms[result'.roomCode].players) >= rooms[result'.roomCode].maxPlayers

C4_Step ==
  /\ \A c \in DOMAIN rooms' : Len(rooms'[c].players) <= rooms'[c].maxPlayers
  /\ JoinAtCapacity => (result'.err = "Room is full" /\ rooms' = rooms)

C4_Capacity == [][C4_Step]_vars

\* A join was refused by a room that holds exactly its capacity.
C4_Witness ==
  /\ result.op = "joinRoom" /\ result.err = "Room is full"
  /\ result.roomCode \in DOMAIN rooms
  /\ Len(rooms[result.roomCode].players) = rooms[result.roomCode].maxPlayers

(***************************************************************************)
(* C5: a start request naming a room and a requester succeeds exactly when *)
(* the room exists in state 'waiting', the requester is a host-flagged     *)
(* member of it, it has at least two members and all of them are ready.    *)
(* A successful request stores a session for the room and sets the room's  *)
(* state to 'playing'; a failed one changes neither the room table nor the *)
(* session table.                                                          *)
(***************************************************************************)
MayStart(roomCode, requesterId) ==
  /\ requesterId # Null
  /\ roomCode \in DOMAIN rooms
  /\ LET room == rooms[roomCode]
     IN /\ room.gameState = "waiting"
        /\ \E i \in 1..Len(room.players) :
             room.players[i].id = requesterId /\ room.players[i].isHost
        /\ Len(room.players) >= 2
        /\ \A i \in 1..Len(room.players) : room.players[i].isReady

C5_Step ==
  result'.op = "startGame" =>
    /\ (result'.err = "") <=> MayStart(result'.roomCode, result'.playerId)
    /\ result'.err = "" =>
         /\ result'.roomCode \in DOMAIN activeGames'
         /\ rooms'[result'.roomCode].gameState = "playing"
         /\ rooms'[result'.roomCode].gameData =
              activeGames'[result'.roomCode].gameState
         /\ \A c \in DOMAIN rooms' \ { result'.roomCode } :
              c \in DOMAIN rooms /\ rooms'[c] = rooms[c]
    /\ result'.err # "" => (rooms' = rooms /\ activeGames' = activeGames)

C5_StartGuard == [][C5_Step]_vars

\* The host of a room of two ready members started the game.
C5_Witness ==
  /\ result.op = "startGame" /\ result.err = ""
  /\ result.roomCode \in DOMAIN activeGames
  /\ rooms[result.roomCode].gameState = "playing"
  /\ Len(rooms[result.roomCode].players) = 2

(***************************************************************************)
(* C6: right after a successful start request the session's seats are the  *)
(* room's members in their order, the round size is the first entry of the *)
(* round sequence, and the session's phase is 'bidding'.                   *)
(***************************************************************************)
C6_StartsInBidding ==
  (result.op = "startGame" /\ result.err = "") =>
    LET room == rooms[result.roomCode]
        gameState == activeGames[result.roomCode].gameState
    IN /\ Len(gameState.players) = Len(room.players)
       /\ \A i \in 1..Len(room.players) : gameState.players[i].id = room.players[i].id
       /\ gameState.cardsPerRound = gameState.roundSequence[1]
       /\ gameState.phase = "bidding"

(***************************************************************************)
(* Game actions as steps: the session of the room the action names, before *)
(* and after the step, and the seat of the sender (0 when it has none).    *)
(***************************************************************************)
ActionStep(type) ==
  /\ result'.op = "gameAction"
  /\ result'.ret.type = type
  /\ result'.roomCode \in DOMAIN activeGames

SessionBefore == activeGames[result'.roomCode].gameState

SessionAfter == activeGames'[result'.roomCode].gameState

SenderSeat == IndexOf(SessionBefore.players, result'.playerId)

BidsPlaced(gameState) ==
  Cardinality({ i \in 1..Len(gameState.players) : gameState.players[i].bid # Null })

\* The seat, counted from 0, that bids next when bids go round from the
\* seat after the dealer.
BidTurn(gameState) ==
  (gameState.dealer + 1 + BidsPlaced(gameState)) % Len(gameState.players)

(***************************************************************************)
(* C7: in the bidding phase a placeBid sent by a seat other than the one   *)
(* whose turn it is to bid, the turns going round from the seat after the  *)
(* dealer, fails, with 'Not your turn' when the bid is in the range of the *)
(* round, and records no bid.                                              *)
(***************************************************************************)
C7_Step ==
  ( /\ ActionStep("placeBid")
    /\ SessionBefore.phase = "bidding"
    /\ SenderSeat # 0
    /\ SenderSeat - 1 # BidTurn(SessionBefore) ) =>
      /\ result'.err # ""
      /\ ~invalidBid(result'.ret.bid, SessionBefore.cardsPerRound) =>
           result'.err = "Not your turn"
      /\ activeGames' = activeGames

C8_Step ==
  ActionStep("placeBid") =>
    LET old == SessionBefore
        n == result'.ret.bid[1]
    IN /\ (old.phase = "bidding" /\ (n < 0 \/ n > old.cardsPerRound)) =>
            /\ result'.err # ""
            /\ activeGames' = activeGames
            /\ rooms' = rooms
       /\ (SenderSeat # 0 /\ old.players[SenderSeat].bid # Null) =>
            /\ result'.err # ""
            /\ activeGames' = activeGames
            /\ rooms' = rooms

C8_BidRange == [][C8_Step]_vars

\* A bid above the round size was refused to a seat without a bid while
\* another seat's bid stood.
C8_Witness ==
  /\ result.op = "gameAction" /\ result.ret.type = "placeBid"
  /\ result.err = "Invalid bid amount"
  /\ result.roomCode \in DOMAIN activeGames
  /\ LET gameState == activeGames[result.roomCode].gameState
     IN /\ gameState.phase = "bidding"
        /\ result.ret.bid[1] > gameState.cardsPerRound
        /\ BidsPlaced(gameState) >= 1

(***************************************************************************)
(* C9: an accepted placeBid after which every seat holds a bid turns the   *)
(* phase to 'playing' and the turn to the seat after the dealer,           *)
(* (dealer + 1) mod the number of seats; an accepted placeBid after which  *)
(* a bid is still missing leaves the phase 'bidding'.                      *)
(***************************************************************************)
C9_Step ==
  (ActionStep("placeBid") /\ result'.err = "") =>
    LET gameState == SessionAfter
    IN IF BidsPlaced(gameState) = Len(gameState.players)
         THEN /\ gameState.phase = "playing"
              /\ gameState.currentPlayerIndex =
                   (gameState.dealer + 1) % Len(gameState.players)
         ELSE gameState.phase = "bidding"

C10_Step ==
  (ActionStep("playCard") /\ SessionBefore.phase = "playing") =>
    LET old == SessionBefore
        new == SessionAfter
        seat == SenderSeat
        card == result'.ret.card
        turn == old.currentPlayerIndex + 1
        hand == old.players[turn].hand
        held == { k \in 1..Len(hand) : hand[k] = card }
    IN /\ (result'.err = "") <=> (seat = turn /\ held # {})
       /\ seat # turn => result'.err = "Not your turn"
       /\ (seat = turn /\ held = {}) => result'.err = "Card not in hand"
       /\ result'.err # "" => (activeGames' = activeGames /\ rooms' = rooms)
       /\ result'.err = "" =>
            /\ \A i \in 1..Len(old.players) :
                 i # seat => new.players[i].hand = old.players[i].hand
            /\ \E k \in held :
                 new.players[seat].hand =
                   SubSeq(hand, 1, k - 1) \o SubSeq(hand, k + 1, Len(hand))
            /\ IF Len(old.currentTrick) + 1 = Len(old.players) /\ new.phase = "playing"
                 THEN new.currentTrick = << >>
                 ELSE new.currentTrick = Append(old.currentTrick, card)

C10_PlayCard == [][C10_Step]_vars

\* The seat in turn played the second card of its hand, and the card lies
\* last in the current trick.
C10_Witness ==
  /\ result.op = "gameAction" /\ result.ret.type = "playCard"
  /\ result.err = ""
  /\ result.roomCode \in DOMAIN activeGames
  /\ LET gameState == activeGames[result.roomCode].gameState
         seat == IndexOf(gameState.players, result.playerId)
     IN /\ gameState.currentTrick # << >>
        /\ gameState.currentTrick[Len(gameState.currentTrick)] = result.ret.card
        /\ Len(gameState.players[seat].hand) = 1
        /\ \A k \in 1..Len(gameState.players[seat].hand) :
             gameState.players[seat].hand[k] # result.ret.card

(***************************************************************************)
(* C11: in the playing phase a playCard by the seat in turn, of a card of  *)
(* its hand whose suit is not the lead suit of the trick under way, is     *)
(* rejected whenever that hand holds a card of the lead suit, and the      *)
(* rejection leaves the session, so the hand and the trick, as it was.     *)
(***************************************************************************)
HoldsSuit(hand, suit) == \E k \in 1..Len(hand) : hand[k].suit = suit

OffSuitPlay ==
  /\ ActionStep("playCard")
  /\ SessionBefore.phase = "playing"
  /\ SenderSeat = SessionBefore.currentPlayerIndex + 1
  /\ SessionBefore.currentTrick # << >>
  /\ result'.ret.card.suit # SessionBefore.leadSuit
  /\ HoldsSuit(SessionBefore.players[SenderSeat].hand, SessionBefore.leadSuit)

C11_Step == OffSuitPlay => (result'.err # "" /\ activeGames' = activeGames)

RankOrder == << "A", "7", "K", "Q", "J", "10", "9", "8", "6", "5", "4", "3", "2" >>

RankIndex(rank) == CHOOSE k \in 1..Len(RankOrder) : RankOrder[k] = rank

\* the places of the trick that hold the cards that can win it
Contenders(trick, trumpSuit, leadSuit) ==
  IF \E k \in 1..Len(trick) : trick[k].suit = trumpSuit
    THEN { k \in 1..Len(trick) : trick[k].suit = trumpSuit }
    ELSE { k \in 1..Len(trick) : trick[k].suit = leadSuit }

HighestPlace(trick, trumpSuit, leadSuit) ==
  CHOOSE k \in Contenders(trick, trumpSuit, leadSuit) :
    \A j \in Contenders(trick, trumpSuit, leadSuit) :
      RankIndex(trick[k].rank) <= RankIndex(trick[j].rank)

CompletesTrick ==
  /\ ActionStep("playCard")
  /\ result'.err = ""
  /\ Len(SessionBefore.currentTrick) + 1 = Len(SessionBefore.players)

C12_Step ==
  CompletesTrick =>
    LET old == SessionBefore
        new == SessionAfter
        trick == Append(old.currentTrick, result'.ret.card)
        trickPlayers == Append(old.currentTrickPlayers, result'.playerId)
        winnerId == trickPlayers[HighestPlace(trick, old.trumpSuit, trick[1].suit)]
        winner == IndexOf(old.players, winnerId)
    IN new.players[winner].actualWins = old.players[winner].actualWins + 1

Credited(old, new) ==
  { i \in 1..Len(old.players) : new.players[i].actualWins # old.players[i].actualWins }

HandsEmpty(gameState) ==
  \A i \in 1..Len(gameState.players) : gameState.players[i].hand = << >>

C13_Step ==
  (ActionStep("playCard") /\ result'.err = "") =>
    LET old == SessionBefore
        new == SessionAfter
    IN IF Len(old.currentTrick) + 1 = Len(old.players)
         THEN /\ Cardinality(Credited(old, new)) = 1
              /\ \A i \in Credited(old, new) :
                   /\ new.players[i].actualWins = old.players[i].actualWins + 1
                   /\ ~HandsEmpty(new) => new.currentPlayerIndex = i - 1
              /\ IF HandsEmpty(new)
                   THEN new.phase = "roundEnd"
                   ELSE /\ new.phase = "playing"
                        /\ new.currentTrick = << >>
                        /\ new.leadSuit = NoSuit
         ELSE /\ Credited(old, new) = {}
              /\ new.phase = "playing"
              /\ new.currentPlayerIndex =
                   (old.currentPlayerIndex + 1) % Len(old.players)

C13_TrickCompletion == [][C13_Step]_vars

\* A play completed the first trick of a round of three seats: the trick
\* is cleared, one trick is won, and cards remain.
C13_Witness ==
  /\ result.op = "gameAction" /\ result.ret.type = "playCard"
  /\ result.err = ""
  /\ result.roomCode \in DOMAIN activeGames
  /\ LET gameState == activeGames[result.roomCode].gameState
     IN /\ Len(gameState.players) = 3
        /\ gameState.phase = "playing"
        /\ gameState.currentTrick = << >>
        /\ \E i \in 1..3 : gameState.players[i].actualWins = 1
        /\ \A i \in 1..3 : Len(gameState.players[i].hand) = 1

(***************************************************************************)
(* C14: when a play ends a round, every seat's cumulative score grows by   *)
(* its round score, 10 + tricks won when its bid equals its tricks won and *)
(* 0 otherwise; the round change that follows appends to the round history *)
(* one record per seat with that bid, those tricks won and that score.     *)
(***************************************************************************)
RoundScore(seat) ==
  IF seat.bid = << seat.actualWins >> THEN 10 + seat.actualWins ELSE 0

C14_Step ==
  /\ (ActionStep("playCard") /\ result'.err = "" /\ SessionAfter.phase = "roundEnd") =>
       \A i \in 1..Len(SessionBefore.players) :
         SessionAfter.players[i].totalScore =
           SessionBefore.players[i].totalScore + RoundScore(SessionAfter.players[i])
  /\ (ActionStep("nextRound") /\ result'.err = "") =>
       LET old == SessionBefore
           new == rooms'[result'.roomCode].gameData
       IN /\ Len(new.roundHistory) = Len(old.roundHistory) + 1
          /\ \A k \in 1..Len(old.roundHistory) : new.roundHistory[k] = old.roundHistory[k]
          /\ LET record == new.roundHistory[Len(new.roundHistory)]
             IN /\ Len(record) = Len(old.players)
                /\ \A i \in 1..Len(old.players) :
                     /\ << record[i].bid >> = old.players[i].bid
                     /\ record[i].actualWins = old.players[i].actualWins
                     /\ record[i].roundScore = RoundScore(old.players[i])
                     /\ record[i].round = old.currentRound
                     /\ record[i].cardsInRound = old.cardsPerRound

C14_RoundScores == [][C14_Step]_vars

\* A round change recorded a round in which one seat made its bid of one
\* trick and another seat missed its bid.
C14_Witness ==
  /\ result.op = "gameAction" /\ result.ret.type = "nextRound"
  /\ result.err = ""
  /\ LET gameState == rooms[result.roomCode].gameData
         record == gameState.roundHistory[Len(gameState.roundHistory)]
     IN /\ \E i \in 1..Len(record) : record[i].roundScore = 11
        /\ \E i \in 1..Len(record) :
             record[i].roundScore = 0 /\ record[i].bid # record[i].actualWins
        /\ \E i \in 1..Len(gameState.players) : gameState.players[i].totalScore = 11

(***************************************************************************)
(* C15: the round sequence of every session whose room is configured with  *)
(* a game length m >= 1 is m, m - 1, ..., 1, 2, ..., m, of length 2m - 1,  *)
(* and the session's totalRounds is that length.                           *)
(***************************************************************************)
C15_RoundSequence ==
  \A c \in DOMAIN activeGames :
    LET m == rooms[c].settings.gameLength
        gameState == activeGames[c].gameState
        sequence == gameState.roundSequence
    IN m >= 1 =>
         /\ Len(sequence) = 2 * m - 1
         /\ \A k \in 1..m : sequence[k] = m - k + 1
         /\ \A k \in (m + 1)..(2 * m - 1) : sequence[k] = k - m + 1
         /\ gameState.totalRounds = Len(sequence)

\* A game of length 10 was started: 19 rounds.
C15_Witness ==
  \E c \in DOMAIN activeGames :
    /\ rooms[c].settings.gameLength = 10
    /\ Len(activeGames[c].gameState.roundSequence) = 19
    /\ activeGames[c].gameState.totalRounds = 19

(***************************************************************************)
(* C16: a round change in 'roundEnd' at the last round of the sequence     *)
(* succeeds, turns the phase to 'gameEnd', emits gameEnded once, sets the  *)
(* room to 'finished' and removes the session; a round change at an        *)
(* earlier round keeps the session and the room 'playing' and emits no     *)
(* gameEnded; every game action for a room without a session fails and     *)
(* changes neither the rooms nor the sessions.                             *)
(***************************************************************************)
Emitted(type) == Cardinality({ k \in 1..Len(events') : events'[k].type = type })

C16_Step ==
  /\ (ActionStep("nextRound") /\ SenderSeat # 0 /\ SessionBefore.phase = "roundEnd") =>
       LET old == SessionBefore
           c == result'.roomCode
       IN IF old.currentRound + 1 = Len(old.roundSequence)
            THEN /\ result'.err = ""
                 /\ rooms'[c].gameData.phase = "gameEnd"
                 /\ Emitted("gameEnded") = 1
                 /\ rooms'[c].gameState = "finished"
                 /\ c \notin DOMAIN activeGames'
            ELSE /\ result'.err = ""
                 /\ c \in DOMAIN activeGames'
                 /\ SessionAfter.phase # "gameEnd"
                 /\ Emitted("gameEnded") = 0
                 /\ rooms'[c].gameState = "playing"
  /\ (result'.op = "gameAction" /\ result'.roomCode \notin DOMAIN activeGames) =>
       /\ result'.err = "No active game found"
       /\ activeGames' = activeGames
       /\ rooms' = rooms

EndsGame ==
  /\ ActionStep("nextRound")
  /\ result'.err = ""
  /\ result'.roomCode \notin DOMAIN activeGames'

ReportedWinner ==
  events'[CHOOSE k \in 1..Len(events') : events'[k].type = "gameEnded"].playerId

C17_Step ==
  EndsGame =>
    LET seats == SessionBefore.players
        winner == IndexOf(seats, ReportedWinner)
    IN /\ winner # 0
       /\ \A j \in 1..Len(seats) : seats[j].totalScore <= seats[winner].totalScore
       /\ \A j \in 1..(winner - 1) : seats[j].totalScore < seats[winner].totalScore
       /\ \A j \in 1..Len(seats) :
            /\ players'[seats[j].id].stats.gamesPlayed =
                 players[seats[j].id].stats.gamesPlayed + 1
            /\ players'[seats[j].id].stats.gamesWon =
                 players[seats[j].id].stats.gamesWon + (IF j = winner THEN 1 ELSE 0)

C17_Winner == [][C17_Step]_vars

\* A game of three seats ended with the first seat behind and the other
\* two seats level: the second seat won.
C17_Witness ==
  /\ result.op = "gameAction" /\ result.ret.type = "nextRound"
  /\ result.err = ""
  /\ result.roomCode \notin DOMAIN activeGames
  /\ LET seats == rooms[result.roomCode].gameData.players
     IN /\ Len(seats) = 3
        /\ seats[1].totalScore < seats[2].totalScore
        /\ seats[2].totalScore = seats[3].totalScore
        /\ players[seats[2].id].stats.gamesWon = 1
        /\ players[seats[3].id].stats.gamesWon = 0
        /\ \E k \in 1..Len(events) :
             events[k].type = "gameEnded" /\ events[k].playerId = seats[2].id

(***************************************************************************)
(* C18: a round change accepted before the last round raises the round     *)
(* index by one, takes the round size from the next element of the round   *)
(* sequence, turns the phase to bidding and resets the fields of the       *)
(* round: every seat's bid is unset and its tricks won are 0, the current  *)
(* trick is empty and the lead suit is unset; the cumulative scores are    *)
(* unchanged.                                                              *)
(***************************************************************************)
AdvancesRound ==
  /\ ActionStep("nextRound")
  /\ result'.err = ""
  /\ result'.roomCode \in DOMAIN activeGames'

C18_Step ==
  AdvancesRound =>
    LET old == SessionBefore
        new == SessionAfter
    IN /\ new.currentRound = old.currentRound + 1
       /\ new.cardsPerRound = old.roundSequence[new.currentRound + 1]
       /\ new.phase = "bidding"
       /\ \A j \in 1..Len(new.players) :
            /\ new.players[j].bid = Null
            /\ new.players[j].actualWins = 0
            /\ new.players[j].totalScore = old.players[j].totalScore
       /\ new.currentTrick = << >>
       /\ new.leadSuit = Null

Rejected ==
  /\ result'.op = "gameAction"
  /\ result'.err # ""

C19_Step ==
  Rejected =>
    /\ activeGames' = activeGames
    /\ rooms' = rooms
    /\ players' = players

PhaseEdges ==
  { << "setup", "bidding" >>, << "bidding", "playing" >>,
    << "playing", "roundEnd" >>, << "roundEnd", "bidding" >>,
    << "roundEnd", "gameEnd" >> }

PhaseOf(type) ==
  CASE type = "placeBid" -> "bidding"
    [] type = "playCard" -> "playing"
    [] type = "nextRound" -> "roundEnd"

WrongPhaseError(type) ==
  CASE type = "placeBid" -> "Not in bidding phase"
    [] type = "playCard" -> "Not in playing phase"
    [] type = "nextRound" -> "Not at end of round"

\* the phase of the session of a room, or of the game the room keeps once
\* the session has ended
PhaseIn(sessions, records, c) ==
  IF c \in DOMAIN sessions THEN sessions[c].gameState.phase
  ELSE records[c].gameData.phase

C20_Step ==
  /\ \A c \in DOMAIN activeGames :
       c \in DOMAIN rooms' =>
         \/ PhaseIn(activeGames', rooms', c) = activeGames[c].gameState.phase
         \/ << activeGames[c].gameState.phase, PhaseIn(activeGames', rooms', c) >>
              \in PhaseEdges
  /\ \A type \in { "placeBid", "playCard", "nextRound" } :
       (ActionStep(type) /\ result'.roomCode \in DOMAIN rooms /\ SenderSeat # 0) =>
         /\ result'.err = "" => SessionBefore.phase = PhaseOf(type)
         /\ SessionBefore.phase # PhaseOf(type) => result'.err = WrongPhaseError(type)

C20_PhaseEdges == [][C20_Step]_vars

\* A round change was refused in another phase than roundEnd, in a session
\* that has been through bidding, playing and roundEnd and is bidding again.
C20_Witness ==
  /\ result.op = "gameAction" /\ result.ret.type = "nextRound"
  /\ result.err = "Not at end of round"
  /\ result.roomCode \in DOMAIN activeGames
  /\ activeGames[result.roomCode].gameState.phase = "bidding"
  /\ activeGames[result.roomCode].gameState.currentRound = 1

(***************************************************************************)
(* C21: when a round starts (the session is created, or its round index    *)
(* moves on) every seat holds exactly cardsPerRound cards, and the hands,  *)
(* the current trick and the undealt deck together hold every card of the  *)
(* full deck exactly once.                                                 *)
(***************************************************************************)
FullDeck == { Card(suit, rank) : suit \in { "S", "H", "D", "C" }, rank \in Range(RankOrder) }

RECURSIVE HandCards(_, _)
HandCards(seats, k) ==
  IF k = 0 THEN << >> ELSE HandCards(seats, k - 1) \o seats[k].hand

\* the cards of the hands, of the current trick and of the deck, in a row
CardsOf(gameState) ==
  HandCards(gameState.players, Len(gameState.players))
    \o gameState.currentTrick \o gameState.deck

StartsRound(c) ==
  /\ c \in DOMAIN activeGames'
  /\ \/ c \notin DOMAIN activeGames
     \/ activeGames'[c].gameState.currentRound # activeGames[c].gameState.currentRound

C21_Step ==
  \A c \in DOMAIN activeGames' :
    StartsRound(c) =>
      LET gameState == activeGames'[c].gameState
      IN /\ \A j \in 1..Len(gameState.players) :
              Len(gameState.players[j].hand) = gameState.cardsPerRound
         /\ Len(CardsOf(gameState)) = Cardinality(FullDeck)
         /\ Range(CardsOf(gameState)) = FullDeck

C21_Dealing == [][C21_Step]_vars

(***************************************************************************)
(* C22: a disconnection or a leave that takes a seat of a session from     *)
(* connected to disconnected and leaves fewer than 2 connected seats emits *)
(* gamePaused; a disconnection or a leave changes nothing of a session but *)
(* the connected flags of its seats (phase, hands, bids, trick, scores,    *)
(* turn and seat order stay); gamePaused is emitted by no step that leaves *)
(* 2 or more seats of the session connected.                               *)
(***************************************************************************)
ConnectedSeats(gameState) ==
  { j \in 1..Len(gameState.players) : gameState.players[j].isConnected }

\* the session without the connected flags of its seats
Unflagged(gameState) ==
  [ gameState EXCEPT !.players = [ j \in 1..Len(@) |-> [ @[j] EXCEPT !.isConnected = TRUE ] ] ]

Departure == result'.op \in { "disconnect", "leaveRoom" }

C22_Step ==
  /\ Departure =>
       \A c \in DOMAIN activeGames :
         /\ c \in DOMAIN activeGames'
         /\ Unflagged(activeGames'[c].gameState) = Unflagged(activeGames[c].gameState)
         /\ ( /\ ConnectedSeats(activeGames'[c].gameState)
                   # ConnectedSeats(activeGames[c].gameState)
              /\ Cardinality(ConnectedSeats(activeGames'[c].gameState)) < 2 )
              => \E k \in 1..Len(events') :
                   events'[k].type = "gamePaused" /\ events'[k].roomCode = c
  /\ \A k \in 1..Len(events') :
       events'[k].type = "gamePaused" =>
         /\ Departure
         /\ events'[k].roomCode \in DOMAIN activeGames'
         /\ Cardinality(ConnectedSeats(activeGames'[events'[k].roomCode].gameState)) < 2

C22_Pause == [][C22_Step]_vars

\* The second of three seats has gone and the game is paused, after the
\* first had gone without a pause.
C22_Witness ==
  /\ result.op \in { "disconnect", "leaveRoom" }
  /\ \E c \in DOMAIN activeGames :
       /\ Len(activeGames[c].gameState.players) = 3
       /\ Cardinality(ConnectedSeats(activeGames[c].gameState)) = 1
       /\ \E k \in 1..Len(events) : events[k].type = "gamePaused"

(***************************************************************************)
(* C23: when a player that holds a seat of a session and is a member of    *)
(* the room authenticates again with its id, the session is as it was      *)
(* before the player's connection closed: the seat is flagged connected,   *)
(* the flags of the other seats and the rest of the session are as they    *)
(* were, so that the session counts the seats that are connected.          *)
(***************************************************************************)
Reconnects(c, playerId) ==
  /\ result'.op = "authenticate"
  /\ result'.err = ""
  /\ result'.playerId = playerId
  /\ playerId \in DOMAIN players
  /\ players[playerId].roomCode = c
  /\ c \in DOMAIN rooms
  /\ IndexOf(rooms[c].players, playerId) # 0
  /\ IndexOf(activeGames[c].gameState.players, playerId) # 0

C23_Step ==
  \A c \in DOMAIN activeGames, playerId \in DOMAIN players :
    Reconnects(c, playerId) =>
      LET old == activeGames[c].gameState
          new == activeGames'[c].gameState
          seat == IndexOf(old.players, playerId)
      IN /\ Unflagged(new) = Unflagged(old)
         /\ new.players[seat].isConnected
         /\ \A j \in 1..Len(old.players) :
              j # seat => new.players[j].isConnected = old.players[j].isConnected

C23_Reconnect == [][C23_Step]_vars

(***************************************************************************)
(* C24: the timer of an empty room deletes the room only if it has no      *)
(* member and has had none for a full grace window since it was last left, *)
(* so the deletion that a leave scheduled does not act once a member has   *)
(* joined, not even if the room is empty again before that window ends;    *)
(* and it deletes a room that has stayed empty for the grace window.       *)
(***************************************************************************)
GraceTimerFires(c) ==
  /\ result'.op = "emptyRoom"
  /\ result'.roomCode = c
  /\ c \in DOMAIN rooms

C24_Step ==
  \A c \in DOMAIN rooms :
    GraceTimerFires(c) =>
      IF Len(rooms[c].players) = 0 /\ rooms[c].lastActivity + graceMs <= now
        THEN c \notin DOMAIN rooms'
        ELSE c \in DOMAIN rooms' /\ rooms'[c] = rooms[c]

C24_GraceWindow == [][C24_Step]_vars

(***************************************************************************)
(* C25: the cleanup timer of a disconnection removes the player only if    *)
(* the player is disconnected and no later disconnection of the player has *)
(* its window still running, so the removal that a disconnection scheduled *)
(* does not act once the player has reconnected, not even when the player  *)
(* has disconnected again by the time the timer fires; a connected player  *)
(* is never removed, and a player that stayed disconnected is removed.     *)
(***************************************************************************)
CleanupTimerFires(playerId) ==
  /\ result'.op = "playerCleanup"
  /\ result'.playerId = playerId
  /\ playerId \in DOMAIN players

\* a disconnection of the player later than the one whose timer fires
LaterDisconnection(playerId) ==
  \E t \in timers :
    t.kind = "playerCleanup" /\ t.key = playerId /\ t.due > result'.ret

C25_Step ==
  \A playerId \in DOMAIN players :
    CleanupTimerFires(playerId) =>
      IF ~players[playerId].isConnected /\ ~LaterDisconnection(playerId)
        THEN playerId \notin DOMAIN players'
        ELSE playerId \in DOMAIN players' /\ players'[playerId] = players[playerId]

C25_DisconnectWindow == [][C25_Step]_vars

(***************************************************************************)
(* C26: an authentication with the id of a player on record answers with   *)
(* that player, flags it connected, binds it to the connection, removes    *)
(* the binding of the connection it had before and creates no player; an   *)
(* authentication with a name and an id that is unknown or absent creates  *)
(* exactly one player, bound to the connection.                            *)
(***************************************************************************)
Authenticates == result'.op = "authenticate"

KnownId == result'.playerId # Null /\ result'.playerId \in DOMAIN players

BoundTo(socketId, playerId) ==
  /\ result'.err = ""
  /\ sockets'[socketId].currentPlayer = playerId
  /\ playerId \in DOMAIN players'
  /\ players'[playerId].isConnected
  /\ players'[playerId].socketId = socketId
  /\ socketId \in DOMAIN socketToPlayer'
  /\ socketToPlayer'[socketId] = playerId

C26_Known ==
  (Authenticates /\ KnownId) =>
    LET playerId == result'.playerId
        before == players[playerId].socketId
    IN /\ BoundTo(result'.ret.socketId, playerId)
       /\ (before # Null /\ before # result'.ret.socketId)
            => before \notin DOMAIN socketToPlayer'
       /\ DOMAIN players' = DOMAIN players
       /\ idSeq' = idSeq
       /\ players'[playerId].stats = players[playerId].stats
       /\ players'[playerId].roomCode = players[playerId].roomCode

C26_New ==
  (Authenticates /\ ~KnownId /\ result'.ret.hasName) =>
    \E playerId \in DOMAIN players' \ DOMAIN players :
      /\ DOMAIN players' = DOMAIN players \cup { playerId }
      /\ BoundTo(result'.ret.socketId, playerId)

C26_Step == C26_Known /\ C26_New

C26_Authenticate == [][C26_Step]_vars

(***************************************************************************)
(* C27: a join adds the player to the members only if the room exists, is  *)
(* below its capacity, is not 'playing' and does not have the player among *)
(* its members; a join that fails, with 'Room not found', 'Room is full',  *)
(* 'Game already in progress' or 'Player already in room', leaves the      *)
(* members of every room as they were and emits no playerJoined; the       *)
(* members of a room that is 'playing' never grow.                         *)
(***************************************************************************)
Joins == result'.op = "joinRoom"

Members(records, c) == { records[c].players[i].id : i \in 1..Len(records[c].players) }

JoinError(c, playerId) ==
  IF c \notin DOMAIN rooms THEN "Room not found"
  ELSE IF Len(rooms[c].players) >= rooms[c].maxPlayers THEN "Room is full"
  ELSE IF rooms[c].gameState = "playing" THEN "Game already in progress"
  ELSE IF playerId \in Members(rooms, c) THEN "Player already in room"
  ELSE ""

C27_Step ==
  /\ (Joins /\ result'.err = "") =>
       LET c == result'.roomCode
       IN /\ JoinError(c, result'.playerId) = ""
          /\ Members(rooms', c) = Members(rooms, c) \cup { result'.playerId }
          /\ Len(rooms'[c].players) = Len(rooms[c].players) + 1
          /\ Emitted("playerJoined") = 1
  /\ (Joins /\ result'.err \in { "Room not found", "Room is full",
                                 "Game already in progress", "Player already in room" }) =>
       /\ result'.err = JoinError(result'.roomCode, result'.playerId)
       /\ DOMAIN rooms' = DOMAIN rooms
       /\ \A c \in DOMAIN rooms : rooms'[c].players = rooms[c].players
       /\ Emitted("playerJoined") = 0
  /\ (Joins /\ JoinError(result'.roomCode, result'.playerId) # ""
            /\ result'.playerId # Null) =>
       result'.err # ""
  /\ \A c \in DOMAIN rooms :
       (rooms[c].gameState = "playing" /\ c \in DOMAIN rooms') =>
         Members(rooms', c) \subseteq Members(rooms, c)

C27_Join == [][C27_Step]_vars

\* A join was refused because the game of the room is in progress.
C27_Witness ==
  /\ result.op = "joinRoom"
  /\ result.err = "Game already in progress"
  /\ result.roomCode \in DOMAIN rooms
  /\ rooms[result.roomCode].gameState = "playing"
  /\ Len(rooms[result.roomCode].players) < rooms[result.roomCode].maxPlayers

(***************************************************************************)
(* C28: an accepted setReady changes, among the members of the room, only  *)
(* the ready flag of the member that sent it, and emits allPlayersReady    *)
(* exactly when, after the change, every member of the room is ready and   *)
(* the room has at least 2 members; a refused setReady emits none.         *)
(***************************************************************************)
SetsReady == result'.op = "setReady"

EveryMemberReady(room) == \A i \in 1..Len(room.players) : room.players[i].isReady

C28_Step ==
  /\ (SetsReady /\ result'.err = "") =>
       LET c == result'.roomCode
           old == rooms[c].players
           new == rooms'[c].players
       IN /\ Len(new) = Len(old)
          /\ \A i \in 1..Len(old) :
               new[i] = IF old[i].id = result'.playerId
                          THEN [ old[i] EXCEPT !.isReady = result'.ret ]
                          ELSE old[i]
          /\ Emitted("allPlayersReady") =
               IF EveryMemberReady(rooms'[c]) /\ Len(new) >= 2 THEN 1 ELSE 0
  /\ (SetsReady /\ result'.err # "") => Emitted("allPlayersReady") = 0
  /\ ~SetsReady => Emitted("allPlayersReady") = 0

C28_AllReady == [][C28_Step]_vars

\* The last of two members reported ready and allPlayersReady was emitted.
C28_Witness ==
  /\ result.op = "setReady" /\ result.err = "" /\ result.ret = TRUE
  /\ result.roomCode \in DOMAIN rooms
  /\ Len(rooms[result.roomCode].players) = 2
  /\ EveryMemberReady(rooms[result.roomCode])
  /\ \E k \in 1..Len(events) : events[k].type = "allPlayersReady"

(***************************************************************************)
(* C29: in every reachable state each entry of activeGames belongs to a    *)
(* room that exists and whose gameState is 'playing', also after the room  *)
(* was deleted by its host, by the timer of the emptied room or by the     *)
(* inactivity sweep.                                                       *)
(***************************************************************************)
C29_SessionHasRoom ==
  \A c \in DOMAIN activeGames :
    c \in DOMAIN rooms /\ rooms[c].gameState = "playing"

(***************************************************************************)
(* C30: no error escapes unhandled: no step leaves a rejection without a   *)
(* handler, in particular not the startGame that handleAllPlayersReady     *)
(* runs after a setReady in a room with autoStart.                         *)
(***************************************************************************)
C30_Step == Emitted("unhandledRejection") = 0

C30_NoUnhandled == [][C30_Step]_vars

(***************************************************************************)
(* C31: createRoom fails with 'Unable to generate unique room code' only   *)
(* when every one of the maxAttempts samples was a live code; when some    *)
(* sample within the bound is not live, createRoom succeeds with the first *)
(* such sample.  A failed createRoom adds no room and no code.             *)
(***************************************************************************)
Exhausted == "Unable to generate unique room code"

\* The attempts of the loop whose sample is not a live code.
FreshAttempts(collisions, draw) ==
  { a \in 1..maxAttempts : sampleAt(roomCodes, collisions, draw, a) \notin roomCodes }

FirstFresh(collisions, draw) ==
  CHOOSE a \in FreshAttempts(collisions, draw) :
    \A b \in FreshAttempts(collisions, draw) : a <= b

\* The random sources under which generateRoomCode ends as the step did.
SourcesOf(err, code) ==
  { src \in Collisions \X RandomDraws :
      \E g \in { generateRoomCode(World, src[1], src[2]) } :
        g.err = err /\ (err = "" => g.ret = code) }

C31_Step ==
  (result'.op = "createRoom") =>
    /\ SourcesOf(result'.err, result'.ret) # {}
    /\ \A src \in SourcesOf(result'.err, result'.ret) :
         IF FreshAttempts(src[1], src[2]) = {}
           THEN result'.err = Exhausted
           ELSE /\ result'.err = ""
                /\ result'.ret = sampleAt(roomCodes, src[1], src[2],
                                          FirstFresh(src[1], src[2]))
    /\ result'.err # "" => rooms' = rooms /\ roomCodes' = roomCodes

C31_Exhaustion == [][C31_Step]_vars

(***************************************************************************)
(* C32: the id of a newly created player is never the id of a player       *)
(* record that exists already, so that createPlayer never replaces the     *)
(* record of another player, whatever the order of the authentications.    *)
(***************************************************************************)
CreatedIds == { events'[k].playerId : k \in { j \in 1..Len(events') :
                                               events'[j].type = "playerCreated" } }

C32_Step == \A playerId \in CreatedIds : playerId \notin DOMAIN players

C32_FreshIds == [][C32_Step]_vars

(***************************************************************************)
(* C33: a seat flagged disconnected stays in the turn order and nobody     *)
(* acts for it: an accepted card that does not complete the trick passes   *)
(* the turn to the next seat index modulo the number of seats, whatever    *)
(* the connection flags; an accepted bid or card changes the bid and the   *)
(* hand of the sender's seat only; and a step that is not a game action    *)
(* changes nothing of a session but the connection flags.                  *)
(***************************************************************************)
C33_Step ==
  /\ result'.op # "gameAction" =>
       \A c \in DOMAIN activeGames \cap DOMAIN activeGames' :
         Unflagged(activeGames'[c].gameState) = Unflagged(activeGames[c].gameState)
  /\ ((ActionStep("placeBid") \/ ActionStep("playCard")) /\ result'.err = "") =>
       /\ SenderSeat # 0
       /\ \A i \in 1..Len(SessionBefore.players) :
            i # SenderSeat =>
              /\ SessionAfter.players[i].bid = SessionBefore.players[i].bid
              /\ SessionAfter.players[i].hand = SessionBefore.players[i].hand
       /\ ConnectedSeats(SessionAfter) = ConnectedSeats(SessionBefore)
  /\ ( /\ ActionStep("playCard") /\ result'.err = ""
       /\ Len(SessionBefore.currentTrick) + 1 < Len(SessionBefore.players) ) =>
       /\ SessionAfter.currentPlayerIndex =
            (SessionBefore.currentPlayerIndex + 1) % Len(SessionBefore.players)
       /\ SessionAfter.currentTrickPlayers =
            Append(SessionBefore.currentTrickPlayers, result'.playerId)

C33_TurnOrder == [][C33_Step]_vars

\* A card was accepted and the turn went to a seat flagged disconnected.
C33_Witness ==
  /\ result.op = "gameAction" /\ result.err = "" /\ result.ret.type = "playCard"
  /\ result.roomCode \in DOMAIN activeGames
  /\ LET gameState == activeGames[result.roomCode].gameState
     IN /\ Len(gameState.players) = 3
        /\ Len(gameState.currentTrick) \in 1..2
        /\ ~gameState.players[gameState.currentPlayerIndex + 1].isConnected

(***************************************************************************)
(* C34: while no room exists under a code, as after the room's deletion,   *)
(* joinRoom, setReady, startGame and a game action for that code fail with *)
(* a not-found error, leaveRoom answers false, and none of them changes    *)
(* the players, the rooms, the codes, the sessions or the timers.          *)
(***************************************************************************)
NotFoundErrors == { "Room not found", "No active game found" }

OnMissingRoom ==
  /\ result'.op \in { "joinRoom", "setReady", "startGame", "gameAction", "leaveRoom" }
  /\ result'.playerId \in MintedIds
  /\ result'.roomCode \notin DOMAIN rooms

C34_Step ==
  OnMissingRoom =>
    /\ IF result'.op = "leaveRoom"
         THEN result'.err = "" /\ result'.ret = FALSE
         ELSE result'.err \in NotFoundErrors
    /\ UNCHANGED << players, socketToPlayer, rooms, roomCodes, activeGames, timers >>

C34_AfterDeletion == [][C34_Step]_vars

\* A join was refused for the code of a deleted room: its session is still
\* on record.
C34_Witness ==
  /\ result.op = "joinRoom" /\ result.err = "Room not found"
  /\ result.roomCode \notin DOMAIN rooms
  /\ result.roomCode \in DOMAIN activeGames

(***************************************************************************)
(* C35: in every reachable state the roomCode of a player record is c if   *)
(* and only if c is a live room and the player is one of its members; so   *)
(* a player is a member of at most one live room, and no record points to  *)
(* a room that has been deleted.                                           *)
(***************************************************************************)
MemberOf(playerId, c) == c \in DOMAIN rooms /\ IndexOf(rooms[c].players, playerId) # 0

C35_Pointer ==
  \A playerId \in DOMAIN players :
    /\ players[playerId].roomCode # Null =>
         MemberOf(playerId, players[playerId].roomCode)
    /\ \A c \in DOMAIN rooms :
         MemberOf(playerId, c) => players[playerId].roomCode = c

(***************************************************************************)
(* C36: in every reachable state each member of each live room is a player *)
(* on record: a player that was removed after its disconnection is a       *)
(* member of no room.                                                      *)
(***************************************************************************)
C36_MembersKnown ==
  \A c \in DOMAIN rooms :
    \A i \in 1..Len(rooms[c].players) : rooms[c].players[i].id \in DOMAIN players

(***************************************************************************)
(* C37: when a player has authenticated again on another socket, the       *)
(* disconnect of the socket it used before has no effect on the player:    *)
(* the player's record, its entries in the rooms, its seats in the         *)
(* sessions and its timers stay as they are and no event about the player  *)
(* is emitted; if the socket is bound to no player, nothing changes and    *)
(* nothing is emitted, in particular no gamePaused.                        *)
(***************************************************************************)
\* the socket that the step closes
ClosedSocket == CHOOSE s \in DOMAIN sockets : sockets[s].open /\ ~sockets'[s].open

\* The step closes a socket whose connection authenticated as playerId,
\* while the player's record is bound to another socket.
OldSocketCloses(playerId) ==
  /\ result'.op = "disconnect"
  /\ result'.playerId = playerId
  /\ playerId \in DOMAIN players
  /\ players[playerId].socketId # ClosedSocket

MemberEntries(rs, playerId) ==
  [ c \in DOMAIN rs |-> { rs[c].players[i] : i \in { j \in 1..Len(rs[c].players) :
                                                      rs[c].players[j].id = playerId } } ]

SeatsOf(games, playerId) ==
  [ c \in DOMAIN games |->
      { games[c].gameState.players[i] :
          i \in { j \in 1..Len(games[c].gameState.players) :
                    games[c].gameState.players[j].id = playerId } } ]

C37_Step ==
  \A playerId \in MintedIds :
    OldSocketCloses(playerId) =>
      /\ players'[playerId] = players[playerId]
      /\ MemberEntries(rooms', playerId) = MemberEntries(rooms, playerId)
      /\ SeatsOf(activeGames', playerId) = SeatsOf(activeGames, playerId)
      /\ { t \in timers' : t.key = playerId } = { t \in timers : t.key = playerId }
      /\ \A k \in 1..Len(events') : events'[k].playerId # playerId
      /\ ClosedSocket \notin DOMAIN socketToPlayer =>
           /\ events' = << >>
           /\ UNCHANGED << players, socketToPlayer, rooms, activeGames, timers >>

C37_OldSocket == [][C37_Step]_vars

\* The socket a player used before was closed while the player, a member of
\* a room with a session, is connected on the socket it authenticated on
\* later.
C37_Witness ==
  /\ result.op = "disconnect"
  /\ result.playerId \in DOMAIN players
  /\ LET player == players[result.playerId]
     IN /\ player.isConnected
        /\ player.socketId \in OpenSockets
        /\ player.roomCode \in DOMAIN activeGames
        /\ \E s \in DOMAIN sockets :
             ~sockets[s].open /\ sockets[s].currentPlayer = result.playerId

(***************************************************************************)
(* C38: gameEnded is the last game event of a session: in the step that    *)
(* emits gameEnded for a room no gameStateUpdated for the room follows it  *)
(* and the room's gameData carries the results afterwards; and while a     *)
(* room is finished no step emits gameStateUpdated for it or changes its   *)
(* gameData.                                                               *)
(***************************************************************************)
StateUpdates == { "gameStateUpdated", "room.gameStateUpdated" }

C38_Step ==
  /\ \A k \in 1..Len(events') :
       events'[k].type = "gameEnded" =>
         /\ \A j \in (k + 1)..Len(events') :
              ~(events'[j].type \in StateUpdates /\ events'[j].roomCode = events'[k].roomCode)
         /\ events'[k].roomCode \in DOMAIN rooms'
         /\ "results" \in DOMAIN rooms'[events'[k].roomCode].gameData
  /\ \A c \in DOMAIN rooms \cap DOMAIN rooms' :
       rooms[c].gameState = "finished" =>
         /\ rooms'[c].gameData = rooms[c].gameData
         /\ \A j \in 1..Len(events') :
              ~(events'[j].type \in StateUpdates /\ events'[j].roomCode = c)

RestRequestFails ==
  /\ result'.op \in { "createRoom", "joinRoom" }
  /\ result'.playerId = PlayerIdOf(idSeq + 1)
  /\ result'.err # ""

C39_Step ==
  RestRequestFails =>
    /\ DOMAIN players' = DOMAIN players
    /\ players' = players
    /\ rooms' = rooms
    /\ roomCodes' = roomCodes

C39_FailedRequest == [][C39_Step]_vars

(***************************************************************************)
(* C40: each completed round counts once: after every accepted round       *)
(* change the round history holds one entry per completed round, and the   *)
(* total score of each seat is the sum of the round scores recorded for    *)
(* that seat in the history.                                               *)
(***************************************************************************)
RECURSIVE HistoryScore(_, _, _)
\* the sum of the round scores of the seat in the first k entries
HistoryScore(roundHistory, seat, k) ==
  IF k = 0 THEN 0
  ELSE roundHistory[k][seat].roundScore + HistoryScore(roundHistory, seat, k - 1)

\* The game state that an accepted round change leaves: the session's, or,
\* when the game ended, the one stored with the room.
AfterRoundChange ==
  IF result'.roomCode \in DOMAIN activeGames'
    THEN SessionAfter
    ELSE rooms'[result'.roomCode].gameData

C40_Step ==
  (ActionStep("nextRound") /\ result'.err = "") =>
    /\ Len(AfterRoundChange.roundHistory) = AfterRoundChange.currentRound
    /\ \A i \in 1..Len(AfterRoundChange.players) :
         AfterRoundChange.players[i].totalScore =
           HistoryScore(AfterRoundChange.roundHistory, i,
                        Len(AfterRoundChange.roundHistory))

C40_ScoredOnce == [][C40_Step]_vars

\* A round change was accepted after a round in which one seat made its bid
\* and another seat missed it.
C40_Witness ==
  /\ result.op = "gameAction" /\ result.err = "" /\ result.ret.type = "nextRound"
  /\ result.roomCode \in DOMAIN rooms
  /\ LET gameState == rooms[result.roomCode].gameData
     IN /\ Len(gameState.roundHistory) = 1
        /\ \E i, j \in 1..Len(gameState.players) :
             /\ gameState.players[i].totalScore > 0
             /\ gameState.players[j].totalScore = 0

====
